---- MODULE Spec2Model ----
(***************************************************************************)
(* Model of the fraud-detection service in src/python-model: the graph     *)
(* builder, the cycle / smurfing / shell detectors, the scorer, the        *)
(* false-positive guard, the result assembler and the two request          *)
(* handlers POST /detect and POST /detect/enhanced.                        *)
(*                                                                         *)
(* Conventions.                                                            *)
(*  - An account id is modelled by an integer: account i stands for the    *)
(*    i-th id in Python's string order (for instance "ACC_0001" <          *)
(*    "ACC_0002"), so "lexicographically smaller" is <.  LowerBase + i is  *)
(*    the lower-case spelling of account i; it sorts after every           *)
(*    upper-case id and str.strip().upper() maps it to i.                  *)
(*  - A timestamp is a whole number of hours since an arbitrary epoch.     *)
(*  - Amounts are whole currency units, all multiples of AmountUnit.       *)
(*  - Python's float comparisons against ratios are modelled by exact      *)
(*    cross-multiplied integer comparisons.                                *)
(***************************************************************************)
EXTENDS Integers, Sequences, FiniteSets, TLC

(***************************************************************************)
(* Bounds of the model.                                                    *)
(***************************************************************************)
\* longest batch of the exhaustively enumerated small batches
MaxRows == 2
\* longest directed ring among the ring batches
MaxRing == 6
\* largest number of parallel edges per ring hop
MaxPar == 2
\* largest fan-out / fan-in among the fan batches
MaxFan == 5
\* longest of the short chains, in accounts
MaxChain == 5
\* most accounts of a dense batch
MaxDense == 5
\* number of distinct string-hash seeds a server process may start with
NumSeeds == 2

(***************************************************************************)
(* Program constants.                                                      *)
(***************************************************************************)
SMURFING_THRESHOLD == 10000
TIME_WINDOW_HOURS == 72
MIN_SUSPICION_SCORE == 40
\* detect_smurfing: minimum fan-out / fan-in degree
MinFanDegree == 5
\* _find_cycles_in_scc(min_len=3, max_len=5, max_cycles=100)
min_len == 3
max_len == 5
max_cycles == 100
\* an SCC of more than 50 accounts is searched from its first 50 only
MaxStartNodes == 50
\* at most 20 SCCs are searched
MaxSccs == 20
\* detect_cycles(max_results=50)
default_max_results == 50
\* _is_in_chain(min_chain_length=3), and the depth bound of its search
min_chain_length == 3
MaxChainDepth == 10

\* Depth of nested strongconnect calls CPython allows before it raises
\* RecursionError: the interpreter's default limit of 1000 frames, which no
\* file of the repository raises.  The frames of the callers are not counted,
\* so the model raises no sooner than the interpreter does.
RecursionLimit == 1000

\* every modelled amount is a multiple of this unit
AmountUnit == 100
\* account ids spelling a high-risk name, a whitelisted name
HighRiskFirst == 100
HighRiskLast == 199
WhitelistFirst == 200
WhitelistLast == 299
\* no min_score query parameter
NoScore == 0 - 1
\* ring_id None
NoRing == 0 - 1
\* offset of the lower-case spelling of an account id
LowerBase == 10000
\* a timestamp that is not set (NodeStats.first_tx = None)
NoTime == 0 - 1
\* a transaction id t is written with blanks around it as PaddedBase + t
PaddedBase == 100000

(***************************************************************************)
(* Small helpers.                                                          *)
(***************************************************************************)
Min(a, b) == IF a <= b THEN a ELSE b


Abs(a) == IF a < 0 THEN 0 - a ELSE a

Range(s) == {s[i] : i \in DOMAIN s}

\* sum(s[lo..hi])
RECURSIVE SumRange(_, _, _)
SumRange(s, lo, hi) ==
    IF lo > hi THEN 0
    ELSE IF lo = hi THEN s[lo]
         ELSE SumRange(s, lo, (lo + hi) \div 2) + SumRange(s, (lo + hi) \div 2 + 1, hi)

SumSeq(s) == SumRange(s, 1, Len(s))

\* the concatenation of the sequences s[lo..hi]
RECURSIVE FlattenRange(_, _, _)
FlattenRange(s, lo, hi) ==
    IF lo > hi THEN <<>>
    ELSE IF lo = hi THEN s[lo]
         ELSE FlattenRange(s, lo, (lo + hi) \div 2)
                \o FlattenRange(s, (lo + hi) \div 2 + 1, hi)

\* dict.get(key, default)
Get(f, k, default) == IF k \in DOMAIN f THEN f[k] ELSE default

\* sorted(S) for a set of account ids
SortedSeq(S) ==
    [p \in 1..Cardinality(S) |->
        CHOOSE x \in S : Cardinality({y \in S : y < x}) = p - 1]

\* list.index(x): the first position of x in s
IndexOf(s, x) == CHOOSE i \in 1..Len(s) : s[i] = x /\ \A j \in 1..(i - 1) : s[j] # x

\* Stable sort (sorted(), list.sort(), DataFrame.sort_values on a short
\* table) of s by the integer key Key(x), ascending: an element goes after
\* every element with a smaller key and after the earlier ones with its key.
SortByKey(s, Key(_)) ==
    LET n == Len(s)
        pos == [i \in 1..n |->
                  1 + Cardinality({j \in 1..n :
                        \/ Key(s[j]) < Key(s[i])
                        \/ Key(s[j]) = Key(s[i]) /\ j < i})]
    IN  [p \in 1..n |-> s[CHOOSE i \in 1..n : pos[i] = p]]

(***************************************************************************)
(* models/graph_data.py: Edge, NodeStats, GraphData.                       *)
(***************************************************************************)
Edge(tid, s, r, amt, ts) ==
    [transaction_id |-> tid, sender_id |-> s, receiver_id |-> r,
     amount |-> amt, timestamp |-> ts]

NodeStats ==
    [total_sent |-> 0, total_received |-> 0, out_degree |-> 0, in_degree |-> 0,
     unique_receivers |-> {}, unique_senders |-> {}, transaction_count |-> 0,
     first_tx |-> NoTime, last_tx |-> NoTime]

\* adj_keys is the insertion order of the keys of the dict adjacency_list
GraphData ==
    [adjacency_list |-> <<>>, adj_keys |-> <<>>, reverse_adj |-> <<>>,
     node_stats |-> <<>>, node_set |-> {}, edge_index |-> <<>>,
     transactions |-> <<>>]

(***************************************************************************)
(* graph/builder.py                                                        *)
(***************************************************************************)
\* an update that moves last_tx to every new timestamp and never first_tx
TouchLastOnly(st, ts) ==
    [st EXCEPT !.first_tx = IF @ = NoTime THEN ts ELSE @, !.last_tx = ts]

\* the first_tx / last_tx update of one endpoint
TouchTimes(st, ts) ==
    [st EXCEPT
       !.first_tx = IF st.first_tx = NoTime \/ ts < st.first_tx THEN ts ELSE @,
       !.last_tx = IF st.last_tx = NoTime \/ ts > st.last_tx THEN ts ELSE @]

_update_node_stats(stats, edge) ==
    LET s0 == Get(stats, edge.sender_id, NodeStats)
        s1 == TouchTimes(
                [s0 EXCEPT !.total_sent = @ + edge.amount,
                           !.out_degree = @ + 1,
                           !.unique_receivers = @ \cup {edge.receiver_id},
                           !.transaction_count = @ + 1], edge.timestamp)
        stats1 == (edge.sender_id :> s1) @@ stats
        r0 == Get(stats1, edge.receiver_id, NodeStats)
        r1 == TouchTimes(
                [r0 EXCEPT !.total_received = @ + edge.amount,
                           !.in_degree = @ + 1,
                           !.unique_senders = @ \cup {edge.sender_id},
                           !.transaction_count = @ + 1], edge.timestamp)
    IN  (edge.receiver_id :> r1) @@ stats1

\* the body of the loop over the rows of the data frame
AddEdge(g, edge) ==
    LET key == <<edge.sender_id, edge.receiver_id>>
    IN  [g EXCEPT
           !.adjacency_list =
               (edge.sender_id :> Append(Get(@, edge.sender_id, <<>>), edge)) @@ @,
           !.adj_keys =
               IF edge.sender_id \in DOMAIN g.adjacency_list THEN @
               ELSE Append(@, edge.sender_id),
           !.reverse_adj =
               (edge.receiver_id :> Append(Get(@, edge.receiver_id, <<>>), edge)) @@ @,
           !.edge_index = (key :> Append(Get(@, key, <<>>), edge)) @@ @,
           !.node_set = @ \cup {edge.sender_id, edge.receiver_id},
           !.node_stats = _update_node_stats(@, edge)]

\* The loop over rows lo..hi, split in halves; the first half is evaluated
\* (its node_set is looked at) before the second starts from its result.
RECURSIVE AddRows(_, _, _, _)
AddRows(g, rows, lo, hi) ==
    IF lo > hi THEN g
    ELSE IF lo = hi THEN AddEdge(g, rows[lo])
         ELSE LET mid == (lo + hi) \div 2
                  half == AddRows(g, rows, lo, mid)
              IN  IF half.node_set # {} THEN AddRows(half, rows, mid + 1, hi)
                  ELSE half

\* build_graph_from_csv on a table whose five required columns are present
build_graph_from_csv(rows) ==
    AddRows([GraphData EXCEPT !.transactions = rows], rows, 1, Len(rows))

(***************************************************************************)
(* graph/cycle_detector.py: _tarjan_scc.  The recursion of strongconnect   *)
(* is modelled by its call stack: frames is the stack of active calls,     *)
(* each with the vertex v and the position i of the edge its loop is at.   *)
(***************************************************************************)
TarjanInit ==
    [index |-> <<>>, lowlink |-> <<>>, counter |-> 0, stack |-> <<>>,
     on_stack |-> {}, result |-> <<>>, frames |-> <<>>, k |-> 1,
     raised |-> FALSE, done |-> FALSE]

\* entering strongconnect(w): lines 24-28, or RecursionError
TarjanCall(t, w) ==
    IF Len(t.frames) + 1 > RecursionLimit THEN [t EXCEPT !.raised = TRUE]
    ELSE [t EXCEPT !.index = (w :> t.counter) @@ @,
                   !.lowlink = (w :> t.counter) @@ @,
                   !.counter = @ + 1,
                   !.stack = Append(@, w),
                   !.on_stack = @ \cup {w},
                   !.frames = Append(@, [v |-> w, i |-> 1])]

\* a strongconnect that takes every vertex for the root of a component
TarjanReturnAlwaysRoot(t, v) ==
    LET pos == CHOOSE p \in 1..Len(t.stack) : t.stack[p] = v
        component == {t.stack[p] : p \in pos..Len(t.stack)}
        t1 == [t EXCEPT !.stack = SubSeq(@, 1, pos - 1),
                        !.on_stack = @ \ component,
                        !.result = Append(@, component)]
        rest == SubSeq(t.frames, 1, Len(t.frames) - 1)
    IN  IF rest = <<>> THEN [t1 EXCEPT !.frames = rest]
        ELSE LET top == rest[Len(rest)]
             IN  [t1 EXCEPT
                    !.lowlink[top.v] = Min(@, t1.lowlink[v]),
                    !.frames = [rest EXCEPT ![Len(rest)].i = @ + 1]]

\* leaving strongconnect(v): lines 38-46, then the caller's line 34
TarjanReturn(t, v) ==
    LET isRoot == t.lowlink[v] = t.index[v]
        pos == CHOOSE p \in 1..Len(t.stack) : t.stack[p] = v
        component == {t.stack[p] : p \in pos..Len(t.stack)}
        t1 == IF isRoot
              THEN [t EXCEPT !.stack = SubSeq(@, 1, pos - 1),
                             !.on_stack = @ \ component,
                             !.result = Append(@, component)]
              ELSE t
        rest == SubSeq(t.frames, 1, Len(t.frames) - 1)
    IN  IF rest = <<>> THEN [t1 EXCEPT !.frames = rest]
        ELSE LET top == rest[Len(rest)]
             IN  [t1 EXCEPT
                    !.lowlink[top.v] = Min(@, t1.lowlink[v]),
                    !.frames = [rest EXCEPT ![Len(rest)].i = @ + 1]]

\* one step of _tarjan_scc
TarjanStep(adj, keys, t) ==
    IF t.raised \/ t.done THEN t
    ELSE IF t.frames = <<>>
    THEN \* the loop of lines 48-50
         IF t.k > Len(keys) THEN [t EXCEPT !.done = TRUE]
         ELSE IF keys[t.k] \in DOMAIN t.index THEN [t EXCEPT !.k = @ + 1]
              ELSE TarjanCall([t EXCEPT !.k = @ + 1], keys[t.k])
    ELSE LET top == t.frames[Len(t.frames)]
             edges == Get(adj, top.v, <<>>)
         IN  IF top.i > Len(edges) THEN TarjanReturn(t, top.v)
             ELSE LET w == edges[top.i].receiver_id
                  IN  IF w \notin DOMAIN t.index THEN TarjanCall(t, w)
                      ELSE IF w \in t.on_stack
                           THEN [t EXCEPT
                                   !.lowlink[top.v] = Min(@, t.index[w]),
                                   !.frames[Len(t.frames)].i = @ + 1]
                           ELSE [t EXCEPT !.frames[Len(t.frames)].i = @ + 1]

\* The number of steps _tarjan_scc can take: one per key, two per vertex,
\* one per edge, one to finish.
TarjanFuel(adj, keys) ==
    LET slots == UNION {{<<a, i>> : i \in 1..Len(adj[a])} : a \in DOMAIN adj}
        V == Range(keys) \cup {adj[sl[1]][sl[2]].receiver_id : sl \in slots}
    IN  Len(keys) + 2 * Cardinality(V) + Cardinality(slots) + 1

\* n steps of _tarjan_scc, split in halves (a step leaves a final state as
\* it is); the first half is evaluated before the second starts from it.
RECURSIVE TarjanRun(_, _, _, _)
TarjanRun(adj, keys, t, n) ==
    IF n <= 0 THEN t
    ELSE IF n = 1 THEN TarjanStep(adj, keys, t)
         ELSE LET half == TarjanRun(adj, keys, t, n \div 2)
              IN  IF half.done \/ half.raised THEN half
                  ELSE TarjanRun(adj, keys, half, n - (n \div 2))

\* _tarjan_scc(adj): [raised, result]
_tarjan_scc(adj, keys) ==
    LET t == TarjanRun(adj, keys, TarjanInit, TarjanFuel(adj, keys))
    IN  [raised |-> t.raised, result |-> t.result]

(***************************************************************************)
(* graph/cycle_detector.py: _find_cycles_in_scc.  c is the state the       *)
(* nested function dfs shares with its caller: the list cycles, and the    *)
(* path and the visited set of the current start.                          *)
(***************************************************************************)
RECURSIVE dfs(_, _, _, _, _, _)
RECURSIVE dfs_edges(_, _, _, _, _, _, _)

never_too_deep(depth) == FALSE

\* if depth > max_len: return
too_deep(depth) == depth > max_len

\* dfs(node, depth), lines 77-97
dfs(node, depth, start, scc, adj, c) ==
    IF Len(c.cycles) >= max_cycles THEN c
    ELSE IF too_deep(depth) THEN c
    ELSE LET c1 == [c EXCEPT !.path = Append(@, node),
                             !.visited = @ \cup {node}]
             r == dfs_edges(node, depth, start, scc, adj, 1, c1)
         IN  IF r.returned THEN r.c
             ELSE [r.c EXCEPT !.path = SubSeq(@, 1, Len(@) - 1),
                              !.visited = @ \ {node}]

\* The loop of lines 85-94 from the i-th edge of node on; returned says that
\* line 92 left dfs before the path.pop() of line 96.
dfs_edges(node, depth, start, scc, adj, i, c) ==
    LET edges == Get(adj, node, <<>>)
    IN  IF i > Len(edges) THEN [c |-> c, returned |-> FALSE]
        ELSE LET nb == edges[i].receiver_id
             IN  IF nb \notin scc
                 THEN dfs_edges(node, depth, start, scc, adj, i + 1, c)
                 ELSE IF nb = start /\ depth >= min_len
                 THEN LET c1 == [c EXCEPT !.cycles = Append(@, c.path)]
                      IN  IF Len(c1.cycles) >= max_cycles
                          THEN [c |-> c1, returned |-> TRUE]
                          ELSE dfs_edges(node, depth, start, scc, adj, i + 1, c1)
                 ELSE IF nb \notin c.visited
                 THEN dfs_edges(node, depth, start, scc, adj, i + 1,
                                dfs(nb, depth + 1, start, scc, adj, c))
                 ELSE dfs_edges(node, depth, start, scc, adj, i + 1, c)

\* a search that starts from the smallest account of the SCC alone
first_start_only(scc) == <<SortedSeq(scc)[1]>>

\* sorted(scc), cut to its first 50 accounts when the SCC has more
scc_start_nodes(scc) ==
    LET scc_list == SortedSeq(scc)
    IN  IF Cardinality(scc) > MaxStartNodes
        THEN SubSeq(scc_list, 1, MaxStartNodes) ELSE scc_list

\* the loop over the start nodes, lines 70-99, from the i-th on
RECURSIVE find_from_starts(_, _, _, _, _)
find_from_starts(scc_list, i, scc, adj, cycles) ==
    IF i > Len(scc_list) \/ Len(cycles) >= max_cycles THEN cycles
    ELSE find_from_starts(scc_list, i + 1, scc, adj,
            dfs(scc_list[i], 1, scc_list[i], scc, adj,
                [cycles |-> cycles, path |-> <<>>, visited |-> {}]).cycles)

_find_cycles_in_scc(scc, adj) ==
    find_from_starts(scc_start_nodes(scc), 1, scc, adj, <<>>)

\* a dedup key that is the cycle as the search found it
as_found(cycle) == cycle

\* _canonicalize: rotate so that the smallest element is first
_canonicalize(cycle) ==
    LET smallest == CHOOSE x \in Range(cycle) : \A y \in Range(cycle) : x <= y
        min_idx == IndexOf(cycle, smallest)
    IN  SubSeq(cycle, min_idx, Len(cycle)) \o SubSeq(cycle, 1, min_idx - 1)

\* a flow count that takes one transaction for each hop
first_edge_of_each_hop(cycle, graph) ==
    LET n == Len(cycle)
        hop == [i \in 1..n |->
                  SubSeq(Get(graph.edge_index, <<cycle[i], cycle[(i % n) + 1]>>, <<>>),
                         1, 1)]
    IN  FlattenRange(hop, 1, n)

\* the edges on the consecutive directed pairs of the cycle, last-to-first
\* included, in the order the loops of lines 120-127 and 195-200 meet them
cycle_edges(cycle, graph) ==
    LET n == Len(cycle)
        hop == [i \in 1..n |->
                  Get(graph.edge_index, <<cycle[i], cycle[(i % n) + 1]>>, <<>>)]
    IN  FlattenRange(hop, 1, n)

never_tight(amounts) == FALSE

\* variance_ratio < 0.1, for amounts whose sum is positive:
\* sum((a - avg)^2) / (N * avg^2) = (N * sum(a^2) - sum(a)^2) / sum(a)^2
tight_amounts(amounts) ==
    LET n == Len(amounts)
        u == [i \in 1..n |-> amounts[i] \div AmountUnit]
        s == SumSeq(u)
        sq == SumSeq([i \in 1..n |-> u[i] * u[i]])
    IN  10 * (n * sq - s * s) < s * s

_cycle_risk_score(cycle, graph) ==
    LET edges == cycle_edges(cycle, graph)
        amounts == [i \in 1..Len(edges) |-> edges[i].amount]
        tx_count == Len(edges)
        cluster == IF amounts # <<>> /\ SumSeq(amounts) > 0 /\ tight_amounts(amounts)
                   THEN 20 ELSE 0
        volume == IF tx_count > Len(cycle) * 2 THEN 15 ELSE 0
        long == IF Len(cycle) >= 4 THEN 10 ELSE 0
    IN  Min(50 + cluster + volume + long, 100)

\* the dict appended at lines 204-210
ring_of(cycle, graph) ==
    LET edges == cycle_edges(cycle, graph)
    IN  [members |-> cycle,
         total_flow |-> SumSeq([i \in 1..Len(edges) |-> edges[i].amount]),
         transaction_count |-> Len(edges),
         risk_score |-> _cycle_risk_score(cycle, graph),
         cycle_length |-> Len(cycle)]

\* the loop over raw_cycles, lines 183-210, for the cycles lo..hi; acc holds
\* seen_canonical and results.  The first half is evaluated before the second.
RECURSIVE collect_cycles(_, _, _, _, _, _)
collect_cycles(raw, lo, hi, graph, max_results, acc) ==
    IF lo > hi \/ Len(acc.results) >= max_results THEN acc
    ELSE IF lo = hi
    THEN LET canon == _canonicalize(raw[lo])
         IN  IF canon \in acc.seen THEN acc
             ELSE [seen |-> acc.seen \cup {canon},
                   results |-> Append(acc.results, ring_of(raw[lo], graph))]
    ELSE LET mid == (lo + hi) \div 2
             half == collect_cycles(raw, lo, mid, graph, max_results, acc)
         IN  IF Len(half.results) >= max_results THEN half
             ELSE collect_cycles(raw, mid + 1, hi, graph, max_results, half)

\* the loop over the SCCs, lines 178-210, from the i-th on
RECURSIVE collect_sccs(_, _, _, _, _)
collect_sccs(sccs, i, graph, max_results, acc) ==
    IF i > Len(sccs) \/ Len(acc.results) >= max_results THEN acc
    ELSE LET raw_cycles == _find_cycles_in_scc(sccs[i], graph.adjacency_list)
         IN  collect_sccs(sccs, i + 1, graph, max_results,
                collect_cycles(raw_cycles, 1, Len(raw_cycles), graph, max_results, acc))

\* lines 166-173: the SCCs of size >= 2, smaller first, at most 20 of them
admitted_sccs(found) ==
    LET big == SelectSeq(found, LAMBDA sc : Cardinality(sc) >= 2)
        bySize == SortByKey(big, LAMBDA sc : Cardinality(sc))
    IN  IF Len(bySize) > MaxSccs THEN SubSeq(bySize, 1, MaxSccs) ELSE bySize

\* a descending sort that puts the later of two equal rings first
sort_by_risk_latest_first(results) ==
    SortByKey([i \in 1..Len(results) |-> results[Len(results) + 1 - i]],
              LAMBDA r : 0 - r.risk_score)

\* results.sort(key=risk_score, reverse=True): descending and stable
sort_by_risk(results) == SortByKey(results, LAMBDA r : 0 - r.risk_score)

\* detect_cycles(graph, max_results): raised when _tarjan_scc raises
\* RecursionError, else the list of rings
detect_cycles(graph, max_results) ==
    LET found == _tarjan_scc(graph.adjacency_list, graph.adj_keys)
    IN  IF found.raised THEN [raised |-> TRUE, rings |-> <<>>]
        ELSE LET acc == collect_sccs(admitted_sccs(found.result), 1, graph,
                                     max_results, [seen |-> {}, results |-> <<>>])
                 sorted == sort_by_risk(acc.results)
             IN  [raised |-> FALSE,
                  rings |-> SubSeq(sorted, 1, Min(Len(sorted), max_results))]

(***************************************************************************)
(* graph/smurfing_detector.py                                              *)
(***************************************************************************)
\* sorted(edges, key=timestamp), stable
by_timestamp(edges) == SortByKey(edges, LAMBDA e : e.timestamp)

\* a pattern test over the whole list, whatever the time between the
\* transactions
pattern_without_window(edges, threshold, window_hours) ==
    LET below == {j \in 1..Len(edges) : edges[j].amount < threshold}
    IN  /\ Len(edges) >= 5
        /\ 5 * Cardinality(below) >= 4 * Len(edges)

\* 80% of the transactions of some 72-hour window of five or more are below
\* threshold; below_threshold >= len * 0.8 is 5 * below_threshold >= 4 * len
_check_smurfing_pattern(edges, threshold, window_hours) ==
    LET sorted_edges == by_timestamp(edges)
        n == Len(sorted_edges)
        window_txs(i) == {j \in i..n :
            sorted_edges[j].timestamp <= sorted_edges[i].timestamp + window_hours}
        below(i) == {j \in window_txs(i) : sorted_edges[j].amount < threshold}
    IN  /\ edges # <<>>
        /\ \E i \in 1..n :
              /\ Cardinality(window_txs(i)) >= 5
              /\ 5 * Cardinality(below(i)) >= 4 * Cardinality(window_txs(i))

detect_smurfing(graph) ==
    LET fan_out == {node \in DOMAIN graph.node_stats :
                      /\ graph.node_stats[node].out_degree >= MinFanDegree
                      /\ _check_smurfing_pattern(Get(graph.adjacency_list, node, <<>>),
                                                 SMURFING_THRESHOLD, TIME_WINDOW_HOURS)}
        fan_in == {node \in DOMAIN graph.node_stats :
                      /\ graph.node_stats[node].in_degree >= MinFanDegree
                      /\ _check_smurfing_pattern(Get(graph.reverse_adj, node, <<>>),
                                                 SMURFING_THRESHOLD, TIME_WINDOW_HOURS)}
    IN  fan_out \cup fan_in

(***************************************************************************)
(* graph/shell_detector.py                                                 *)
(***************************************************************************)
\* _dfs_chain_length(current, target, graph, visited, depth): the largest
\* depth at which a walk from current reaches target, 0 when none does
RECURSIVE _dfs_chain_length(_, _, _, _, _)
_dfs_chain_length(current, target, graph, visited, depth) ==
    IF depth > MaxChainDepth THEN 0
    ELSE IF current = target THEN depth
    ELSE IF current \in visited THEN 0
    ELSE LET edges == Get(graph.adjacency_list, current, <<>>)
             lengths == {_dfs_chain_length(edges[i].receiver_id, target, graph,
                                           visited \cup {current}, depth + 1) :
                            i \in 1..Len(edges)}
         IN  IF lengths = {} THEN 0
             ELSE CHOOSE m \in lengths : \A l \in lengths : l <= m

\* a chain test that looks at the sender of the first incoming edge alone
first_sender_only(node, graph) ==
    LET incoming == Get(graph.reverse_adj, node, <<>>)
    IN  /\ incoming # <<>>
        /\ _dfs_chain_length(incoming[1].sender_id, node, graph, {}, 0)
              >= min_chain_length

_is_in_chain(node, graph) ==
    LET incoming == Get(graph.reverse_adj, node, <<>>)
    IN  \E i \in 1..Len(incoming) :
            _dfs_chain_length(incoming[i].sender_id, node, graph, {}, 0)
                >= min_chain_length

\* |avg_out - avg_in| < 24 hours, the averages over the edges' timestamps
shell_has_high_velocity(node, graph) ==
    LET incoming == Get(graph.reverse_adj, node, <<>>)
        outgoing == Get(graph.adjacency_list, node, <<>>)
        sum_in == SumSeq([i \in 1..Len(incoming) |-> incoming[i].timestamp])
        sum_out == SumSeq([i \in 1..Len(outgoing) |-> outgoing[i].timestamp])
    IN  /\ incoming # <<>>
        /\ outgoing # <<>>
        /\ Abs(sum_out * Len(incoming) - sum_in * Len(outgoing))
              < 24 * Len(incoming) * Len(outgoing)

\* 0.8 <= total_sent / total_received <= 1.2
pass_through(stats) ==
    /\ stats.total_received > 0
    /\ 10 * stats.total_sent >= 8 * stats.total_received
    /\ 10 * stats.total_sent <= 12 * stats.total_received

detect_shell_accounts(graph) ==
    {node \in DOMAIN graph.node_stats :
        /\ graph.node_stats[node].in_degree # 0
        /\ graph.node_stats[node].out_degree # 0
        /\ pass_through(graph.node_stats[node])
        /\ _is_in_chain(node, graph)
        /\ shell_has_high_velocity(node, graph)}

(***************************************************************************)
(* config.py.  Ratios are held in percent.  An account id in               *)
(* HighRiskFirst..HighRiskLast spells a name containing one of             *)
(* HIGH_RISK_PATTERNS, one in WhitelistFirst..WhitelistLast a name that    *)
(* is_whitelisted accepts; both tests upper-case the id first.             *)
(***************************************************************************)
upper(account) == IF account >= LowerBase THEN account - LowerBase ELSE account

is_whitelisted(account) ==
    upper(account) >= WhitelistFirst /\ upper(account) <= WhitelistLast

is_high_risk_pattern(account) ==
    upper(account) >= HighRiskFirst /\ upper(account) <= HighRiskLast

DetectionConfig ==
    [SMURFING_THRESHOLD |-> 10000, TIME_WINDOW_HOURS |-> 72, MIN_FAN_DEGREE |-> 5,
     BELOW_THRESHOLD_RATIO |-> 80,
     SCORE_CYCLE_MEMBER |-> 50, SCORE_FAN_IN |-> 30, SCORE_FAN_OUT |-> 30,
     SCORE_SHELL |-> 20, SCORE_HIGH_VELOCITY |-> 10, SCORE_BELOW_THRESHOLD |-> 20,
     SCORE_MULTIPLE_PATTERNS |-> 10,
     MIN_SUSPICION_SCORE |-> 40, MERCHANT_MIN_TX |-> 50,
     MERCHANT_MIN_IN_DEGREE |-> 20, MERCHANT_DIVERSITY_RATIO |-> 70,
     PAYROLL_REGULARITY |-> 60, PAYROLL_MIN_TX |-> 10, EXCHANGE_MIN_DEGREE |-> 15,
     EXCHANGE_FLOW_RATIO_MIN |-> 70, EXCHANGE_FLOW_RATIO_MAX |-> 130,
     TX_PER_DAY_THRESHOLD |-> 10]

aggressive ==
    [DetectionConfig EXCEPT !.SMURFING_THRESHOLD = 9000, !.TIME_WINDOW_HOURS = 96,
                            !.MIN_FAN_DEGREE = 3, !.MIN_SUSPICION_SCORE = 35,
                            !.TX_PER_DAY_THRESHOLD = 5]

preset_without_effect == DetectionConfig

conservative ==
    [DetectionConfig EXCEPT !.SMURFING_THRESHOLD = 12000, !.TIME_WINDOW_HOURS = 48,
                            !.MIN_FAN_DEGREE = 7, !.MIN_SUSPICION_SCORE = 55,
                            !.TX_PER_DAY_THRESHOLD = 15]

\* detect_enhanced.py lines 66-75: the preset, then the min_score override
load_config(preset, min_score) ==
    LET config == IF preset = "aggressive" THEN aggressive
                  ELSE IF preset = "conservative" THEN conservative
                  ELSE DetectionConfig
    IN  IF min_score # NoScore THEN [config EXCEPT !.MIN_SUSPICION_SCORE = min_score]
        ELSE config

(***************************************************************************)
(* graph/scorer.py and EnhancedScorer                                      *)
(***************************************************************************)
\* iteration order of a set of strings: it follows the strings' hashes, which
\* CPython salts per process; seed stands for the salt
set_iteration(S, seed) ==
    LET asc == SortedSeq(S)
        n == Len(asc)
    IN  [i \in 1..n |-> asc[((i + seed - 2) % n) + 1]]

\* time_span_days == 0, or transaction_count / time_span_days > per_day
_has_high_velocity(account, graph, per_day) ==
    /\ account \in DOMAIN graph.node_stats
    /\ LET stats == graph.node_stats[account]
           span_hours == stats.last_tx - stats.first_tx
       IN  /\ stats.first_tx # NoTime
           /\ stats.last_tx # NoTime
           /\ \/ span_hours = 0
              \/ stats.transaction_count * 24 > per_day * span_hours

no_below_threshold_txs(account, graph, threshold, ratio_pct) == FALSE

\* ratio > ratio_pct / 100 and len(all_txs) >= 5
_has_below_threshold_txs(account, graph, threshold, ratio_pct) ==
    LET all_txs == Get(graph.adjacency_list, account, <<>>)
                     \o Get(graph.reverse_adj, account, <<>>)
        below_threshold == Cardinality({i \in 1..Len(all_txs) :
                                            all_txs[i].amount < threshold})
    IN  /\ all_txs # <<>>
        /\ 100 * below_threshold > ratio_pct * Len(all_txs)
        /\ Len(all_txs) >= 5

uncapped(score) == score

\* score = min(score, 100.0)
cap_at_100(score) == Min(score, 100)

connected_rings_from_one(account, fraud_rings) ==
    SortedSeq({i \in 1..Len(fraud_rings) : account \in Range(fraud_rings[i].members)})

\* the indices i of enumerate(fraud_rings) with account in ring['members']
connected_rings_of(account, fraud_rings) ==
    LET hits == {i \in 1..Len(fraud_rings) : account \in Range(fraud_rings[i].members)}
        asc == SortedSeq(hits)
    IN  [k \in 1..Len(asc) |-> asc[k] - 1]

Flag(name, points) == [flag |-> name, points |-> points]

When(cond, name, points) == IF cond THEN <<Flag(name, points)>> ELSE <<>>

\* the dict stored in scores[account]; parts are the flags in the order the
\* code appends them, each with the points it adds
scored_entry(account, graph, parts, fraud_rings) ==
    LET stats == Get(graph.node_stats, account, NodeStats)
    IN  [account_id |-> account,
         suspicion_score |->
             cap_at_100(SumSeq([i \in 1..Len(parts) |-> parts[i].points])),
         flags |-> [i \in 1..Len(parts) |-> parts[i].flag],
         total_transactions |-> stats.transaction_count,
         total_sent |-> stats.total_sent,
         total_received |-> stats.total_received,
         connected_rings |-> connected_rings_of(account, fraud_rings)]

\* the body of the loop of scorer.py lines 31-88 for one account
score_account(account, graph, cycle_members, smurfing_accounts, shell_accounts, fraud_rings) ==
    LET stats == Get(graph.node_stats, account, NodeStats)
        smurf == account \in smurfing_accounts /\ account \in DOMAIN graph.node_stats
        found == When(account \in cycle_members, "cycle_member", 50)
                 \o When(smurf /\ stats.in_degree >= 5, "fan_in_smurfing", 30)
                 \o When(smurf /\ stats.out_degree >= 5, "fan_out_smurfing", 30)
                 \o When(account \in shell_accounts, "shell_account", 20)
                 \o When(_has_high_velocity(account, graph, 10), "high_velocity", 10)
                 \o When(_has_below_threshold_txs(account, graph, 10000, 70),
                         "below_threshold_structuring", 20)
        parts == found \o When(Len(found) >= 3, "multiple_patterns", 10)
    IN  scored_entry(account, graph, parts, fraud_rings)

\* scores, as the sequence of its items in insertion order
score_accounts(graph, cycle_members, smurfing_accounts, shell_accounts, fraud_rings, seed) ==
    LET all_flagged == set_iteration(
            cycle_members \cup smurfing_accounts \cup shell_accounts, seed)
    IN  [i \in 1..Len(all_flagged) |->
            score_account(all_flagged[i], graph, cycle_members, smurfing_accounts,
                          shell_accounts, fraud_rings)]

\* the body of the loop of enhanced_detector.py lines 106-172
EnhancedScorer_score_account(config, account, graph, cycle_members, smurfing_accounts, shell_accounts, fraud_rings) ==
    LET stats == Get(graph.node_stats, account, NodeStats)
        smurf == account \in smurfing_accounts /\ account \in DOMAIN graph.node_stats
        found == When(account \in cycle_members, "cycle_member",
                      config.SCORE_CYCLE_MEMBER)
                 \o When(smurf /\ stats.in_degree >= config.MIN_FAN_DEGREE,
                         "fan_in_smurfing", config.SCORE_FAN_IN)
                 \o When(smurf /\ stats.out_degree >= config.MIN_FAN_DEGREE,
                         "fan_out_smurfing", config.SCORE_FAN_OUT)
                 \o When(account \in shell_accounts, "shell_account",
                         config.SCORE_SHELL)
                 \o When(_has_high_velocity(account, graph,
                                            config.TX_PER_DAY_THRESHOLD),
                         "high_velocity", config.SCORE_HIGH_VELOCITY)
                 \o When(_has_below_threshold_txs(account, graph,
                             config.SMURFING_THRESHOLD, config.BELOW_THRESHOLD_RATIO),
                         "below_threshold_structuring", config.SCORE_BELOW_THRESHOLD)
        parts == found
                 \o When(Len(found) >= 3, "multiple_patterns",
                         config.SCORE_MULTIPLE_PATTERNS)
                 \o When(is_high_risk_pattern(account), "high_risk_pattern", 15)
    IN  scored_entry(account, graph, parts, fraud_rings)

EnhancedScorer_score_accounts(config, graph, cycle_members, smurfing_accounts, shell_accounts, fraud_rings, seed) ==
    LET all_flagged == set_iteration(
            cycle_members \cup smurfing_accounts \cup shell_accounts, seed)
    IN  [i \in 1..Len(all_flagged) |->
            EnhancedScorer_score_account(config, all_flagged[i], graph,
                cycle_members, smurfing_accounts, shell_accounts, fraud_rings)]

(***************************************************************************)
(* graph/false_positive_guard.py and EnhancedFalsePositiveGuard            *)
(***************************************************************************)
never_merchant(account, stats, cycle_members, config) == FALSE

_is_merchant(account, stats, cycle_members, config) ==
    /\ account \notin cycle_members
    /\ stats.transaction_count >= config.MERCHANT_MIN_TX
    /\ stats.in_degree >= config.MERCHANT_MIN_IN_DEGREE
    /\ 100 * Cardinality(stats.unique_senders)
          >= config.MERCHANT_DIVERSITY_RATIO * stats.in_degree

\* (later - earlier).days for timestamps in hours
days_between(earlier, later) == (later - earlier) \div 24

_is_payroll(account, graph, config, monthly) ==
    LET outgoing == Get(graph.adjacency_list, account, <<>>)
        sorted_txs == by_timestamp(outgoing)
        intervals == [i \in 1..(Len(sorted_txs) - 1) |->
                        days_between(sorted_txs[i].timestamp, sorted_txs[i + 1].timestamp)]
        regular == {i \in 1..Len(intervals) :
                        \/ 6 <= intervals[i] /\ intervals[i] <= 8
                        \/ 13 <= intervals[i] /\ intervals[i] <= 15
                        \/ monthly /\ 27 <= intervals[i] /\ intervals[i] <= 32}
    IN  /\ Len(outgoing) >= config.PAYROLL_MIN_TX
        /\ intervals # <<>>
        /\ 100 * Cardinality(regular) > config.PAYROLL_REGULARITY * Len(intervals)

_is_exchange_hub(account, stats, cycle_members, config) ==
    /\ account \notin cycle_members
    /\ stats.in_degree >= config.EXCHANGE_MIN_DEGREE
    /\ stats.out_degree >= config.EXCHANGE_MIN_DEGREE
    /\ stats.total_received > 0 =>
          /\ 100 * stats.total_sent >= config.EXCHANGE_FLOW_RATIO_MIN * stats.total_received
          /\ 100 * stats.total_sent <= config.EXCHANGE_FLOW_RATIO_MAX * stats.total_received

\* the thresholds of false_positive_guard.py are those of DetectionConfig
filter_false_positives(scored_accounts, graph, cycle_members) ==
    SelectSeq(scored_accounts, LAMBDA data :
        /\ data.suspicion_score >= MIN_SUSPICION_SCORE
        /\ data.account_id \in DOMAIN graph.node_stats
        /\ ~_is_merchant(data.account_id, graph.node_stats[data.account_id],
                         cycle_members, DetectionConfig)
        /\ ~_is_payroll(data.account_id, graph, DetectionConfig, FALSE)
        /\ ~_is_exchange_hub(data.account_id, graph.node_stats[data.account_id],
                             cycle_members, DetectionConfig))

EnhancedFalsePositiveGuard_filter(config, scored_accounts, graph, cycle_members) ==
    SelectSeq(scored_accounts, LAMBDA data :
        /\ data.suspicion_score >= config.MIN_SUSPICION_SCORE
        /\ ~is_whitelisted(data.account_id)
        /\ data.account_id \in DOMAIN graph.node_stats
        /\ ~_is_merchant(data.account_id, graph.node_stats[data.account_id],
                         cycle_members, config)
        /\ ~_is_payroll(data.account_id, graph, config, TRUE)
        /\ ~_is_exchange_hub(data.account_id, graph.node_stats[data.account_id],
                             cycle_members, config))

(***************************************************************************)
(* utils/enhanced_detector.py: the wrappers of the three detectors         *)
(***************************************************************************)
EnhancedCycleDetector_detect(config, cycles) ==
    SelectSeq(cycles, LAMBDA cycle : cycle.risk_score >= config.MIN_SUSPICION_SCORE - 10)

EnhancedSmurfingDetector_detect(config, graph, flagged) ==
    {account \in flagged : ~is_whitelisted(account)}
    \cup {account \in graph.node_set :
            /\ is_high_risk_pattern(account)
            /\ account \in DOMAIN graph.node_stats
            /\ \/ graph.node_stats[account].out_degree >= 3
               \/ graph.node_stats[account].in_degree >= 3}

EnhancedShellDetector_detect(config, flagged) ==
    {account \in flagged : ~is_whitelisted(account)}

\* a handler that takes the members of the first ring only
members_of_first_ring(fraud_rings) ==
    IF fraud_rings = <<>> THEN {} ELSE Range(fraud_rings[1].members)

\* cycle_members.update(ring['members']) for every ring
members_of(fraud_rings) ==
    UNION {Range(fraud_rings[i].members) : i \in 1..Len(fraud_rings)}

(***************************************************************************)
(* utils/json_builder.py.  ring_id RING_00i is held as the index i, and    *)
(* NoRing is the ring_id None.  Of graph_data only suspicious_nodes is     *)
(* kept; the timestamp and processing-time fields are left out.            *)
(***************************************************************************)
build_output(scored_accounts, fraud_rings, graph) ==
    LET accounts == [i \in 1..Len(scored_accounts) |->
            [account_id |-> scored_accounts[i].account_id,
             suspicion_score |-> scored_accounts[i].suspicion_score,
             detected_patterns |-> scored_accounts[i].flags,
             ring_id |-> IF scored_accounts[i].connected_rings # <<>>
                         THEN scored_accounts[i].connected_rings[1] ELSE NoRing,
             total_transactions |-> scored_accounts[i].total_transactions,
             total_sent |-> scored_accounts[i].total_sent,
             total_received |-> scored_accounts[i].total_received,
             connected_rings |-> scored_accounts[i].connected_rings]]
        suspicious_accounts == SortByKey(accounts, LAMBDA a : 0 - a.suspicion_score)
        fraud_rings_output == [i \in 1..Len(fraud_rings) |->
            [ring_id |-> i - 1,
             member_accounts |-> fraud_rings[i].members,
             total_flow |-> fraud_rings[i].total_flow,
             transaction_count |-> fraud_rings[i].transaction_count,
             risk_score |-> fraud_rings[i].risk_score,
             cycle_length |-> fraud_rings[i].cycle_length]]
    IN  [suspicious_accounts |-> suspicious_accounts,
         fraud_rings |-> fraud_rings_output,
         summary |->
            [total_accounts_analyzed |-> Cardinality(graph.node_set),
             total_transactions |-> Len(graph.transactions),
             suspicious_accounts_flagged |-> Len(suspicious_accounts),
             fraud_rings_detected |-> Len(fraud_rings_output),
             total_flagged_volume |->
                SumSeq([i \in 1..Len(suspicious_accounts) |->
                    suspicious_accounts[i].total_sent
                        + suspicious_accounts[i].total_received])],
         suspicious_nodes |->
            [i \in 1..Len(suspicious_accounts) |-> suspicious_accounts[i].account_id]]

(***************************************************************************)
(* Validation and cleaning of the enhanced endpoint                        *)
(***************************************************************************)
column(rows, field) == {rows[i][field] : i \in 1..Len(rows)}

\* FileProcessor._optimize_dtypes turns an id column into a categorical one
\* when fewer than half of its values are distinct
is_categorical(rows, field) == 2 * Cardinality(column(rows, field)) < Len(rows)

\* validate_data_types: "type_error" when line 295 compares two categorical
\* columns of different categories (a TypeError, answered with 500),
\* "invalid" when issues were collected (DataValidationError, 400)
validate_data_types(rows) ==
    IF /\ is_categorical(rows, "sender_id")
       /\ is_categorical(rows, "receiver_id")
       /\ column(rows, "sender_id") # column(rows, "receiver_id")
    THEN "type_error"
    ELSE IF \/ \E i \in 1..Len(rows) : rows[i].amount <= 0
            \/ Cardinality(column(rows, "transaction_id")) # Len(rows)
            \/ \E i \in 1..Len(rows) : rows[i].sender_id = rows[i].receiver_id
         THEN "invalid"
         ELSE "ok"

\* df.sort_values('timestamp'), taken to keep the order of equal timestamps
sort_values(rows) ==
    IF \A i \in 1..(Len(rows) - 1) : rows[i].timestamp <= rows[i + 1].timestamp
    THEN rows
    ELSE by_timestamp(rows)

\* str.strip() of a transaction id
strip(transaction_id) == transaction_id % PaddedBase

\* DataValidator.clean_data
clean_data(rows) ==
    LET first_of(i) == \A j \in 1..(i - 1) : rows[j].transaction_id # rows[i].transaction_id
        kept == IF Cardinality(column(rows, "transaction_id")) = Len(rows)
                THEN {i \in 1..Len(rows) : TRUE}
                ELSE {i \in 1..Len(rows) : first_of(i)}
        unique == IF Cardinality(kept) = Len(rows) THEN rows
                  ELSE [k \in 1..Cardinality(kept) |-> rows[SortedSeq(kept)[k]]]
        standard == [i \in 1..Len(unique) |->
                        [unique[i] EXCEPT !.sender_id = upper(@),
                                          !.receiver_id = upper(@),
                                          !.transaction_id = strip(@)]]
    IN  sort_values(SelectSeq(standard, LAMBDA r :
            r.sender_id # r.receiver_id /\ r.amount > 0))

(***************************************************************************)
(* The uploads.  A batch is the sequence of the rows of one CSV file.      *)
(***************************************************************************)
\* the account of rank i, the first one replaced by lead
Acc(i, lead) == IF i = 1 THEN lead ELSE i

\* a directed ring over n accounts with k parallel transactions on each hop:
\* 1 -> 2 -> ... -> n -> 1 when forward, 1 -> n -> ... -> 2 -> 1 otherwise
Ring(n, k, amounts, forward, lead) ==
    [r \in 1..(n * k) |->
        LET hop == ((r - 1) \div k) + 1
            at(h) == IF h = 1 \/ h = n + 1 THEN 1
                     ELSE IF forward THEN h ELSE n + 2 - h
            from == at(hop)
            to == at(hop + 1)
        IN  Edge(r, Acc(from, lead), Acc(to, lead),
                 IF amounts = "zero" THEN 0
                 ELSE IF amounts = "mixed" /\ r = 1 THEN 200 * AmountUnit
                 ELSE AmountUnit,
                 r - 1)]

\* the chain 1 -> 2 -> ... -> n, one hop every gap hours
Chain(n, gap) == [r \in 1..(n - 1) |-> Edge(r, r, r + 1, AmountUnit, (r - 1) * gap)]

\* m transactions between account 1 and the accounts 4..m+3, after the ring
\* 1 -> 2 -> 3 -> 1 when ring is set
Fan(m, outward, amount, ring) ==
    (IF ring THEN Ring(3, 1, "same", TRUE, 1) ELSE <<>>)
    \o [r \in 1..m |-> Edge(r + 3, IF outward THEN 1 ELSE r + 3,
                            IF outward THEN r + 3 ELSE 1, amount, r + 2)]

\* Scenario B: account 1 pays 9000 to each of six accounts, one payment
\* every gap hours, all within ten hours
ScenarioB(gap) == [r \in 1..6 |-> Edge(r, 1, r + 1, 90 * AmountUnit, (r - 1) * gap)]

ScenarioBBatches == {ScenarioB(gap) : gap \in 0..2}

\* Scenario C: the account AMAZON_STORE, the first of the whitelisted
\* names, is paid 9000 by each of sixty senders, one payment every gap hours
AMAZON_STORE == WhitelistFirst

ScenarioC(gap) ==
    [r \in 1..60 |-> Edge(r, r, AMAZON_STORE, 90 * AmountUnit, (r - 1) * gap)]

ScenarioCBatches == {ScenarioC(gap) : gap \in 0..1}

\* a ring of three, two transactions a hop, and a ring of four that share
\* account 1
TwoRings ==
    Ring(3, 2, "same", TRUE, 1)
    \o <<Edge(7, 1, 4, 200 * AmountUnit, 6), Edge(8, 4, 5, AmountUnit, 7),
         Edge(9, 5, 6, AmountUnit, 8), Edge(10, 6, 1, AmountUnit, 9)>>

\* one transaction for every ordered pair of the accounts 1..n, in the
\* order of the pairs, except that account 1 pays neither a nor b
Dense(n, a, b) ==
    LET pairs == SortedSeq({s * (n + 1) + r : s \in 1..n, r \in 1..n}
                           \ ({s * (n + 1) + s : s \in 1..n}
                               \cup {n + 1 + a, n + 1 + b}))
    IN  [r \in 1..Len(pairs) |->
            Edge(r, pairs[r] \div (n + 1), pairs[r] % (n + 1), AmountUnit, r - 1)]

\* every ordered pair of the accounts 1..n
Complete(n) == Dense(n, 1, 1)

\* account 2 receives from 1 directly and over 3 and 4, and passes it all on
Bypass ==
    <<Edge(1, 1, 2, AmountUnit, 0), Edge(2, 1, 3, AmountUnit, 0),
      Edge(3, 3, 4, AmountUnit, 1), Edge(4, 4, 2, AmountUnit, 2),
      Edge(5, 2, 5, 2 * AmountUnit, 3)>>

\* the small batches: every sequence of at most MaxRows rows between two
\* accounts (a row may pay its own sender), the first account possibly
\* sending in its lower-case spelling
SmallPairs == ({1, LowerBase + 1} \X {1, 2}) \cup {<<2, 1>>}

SmallBatches ==
    UNION {{[r \in 1..n |-> Edge(r, f[r][1], f[r][2], AmountUnit, r - 1)] :
                f \in [1..n -> SmallPairs]} : n \in 1..MaxRows}

RingBatches ==
    {Ring(n, k, a, d, 1) : n \in 3..MaxRing, k \in 1..MaxPar,
                           a \in {"same", "mixed"}, d \in BOOLEAN}
    \cup {Ring(n, 1, "zero", TRUE, 1) : n \in 3..MaxRing}
    \cup {Ring(n, k, "same", TRUE, HighRiskFirst + 1) : n \in 3..MaxRing, k \in 1..MaxPar}
    \cup {Ring(3, 1, "same", TRUE, LowerBase + 1), Ring(3, 1, "same", TRUE, WhitelistFirst)}
    \cup {Ring(n, 3, "same", TRUE, 1) : n \in 3..4}

\* the ring 1 -> 2 -> 3 -> 1 with two transactions a hop, and the same
\* ring the other way round
TwoWayRing ==
    Ring(3, 2, "same", TRUE, 1)
    \o <<Edge(7, 1, 3, AmountUnit, 6), Edge(8, 3, 2, AmountUnit, 7),
         Edge(9, 2, 1, AmountUnit, 8)>>

\* the ring 1 -> 2 -> 3 -> 1, whose account 1 also pays the accounts 4..12
\* one after the other a week apart
PayrollRing ==
    Ring(3, 1, "same", TRUE, 1)
    \o [k \in 1..9 |-> Edge(3 + k, 1, 3 + k, AmountUnit, 168 * k)]

\* account 1 pays account 2 over the n accounts 3..n+2 in a row, and after
\* that directly
Detour(n) ==
    [r \in 1..(n + 2) |->
        IF r = n + 2 THEN Edge(r, 1, 2, AmountUnit, r - 1)
        ELSE Edge(r, IF r = 1 THEN 1 ELSE r + 1, IF r = n + 1 THEN 2 ELSE r + 2,
                  AmountUnit, r - 1)]

\* n transactions between account 1 and the accounts 2..n+1, one every gap
\* hours, the first big of them of exactly SMURFING_THRESHOLD
Spread(n, gap, big, outward) ==
    [r \in 1..n |-> Edge(r, IF outward THEN 1 ELSE r + 1, IF outward THEN r + 1 ELSE 1,
                         IF r <= big THEN SMURFING_THRESHOLD ELSE 90 * AmountUnit,
                         (r - 1) * gap)]

\* five transactions over exactly 72 hours and over 76, one or two of them
\* at the threshold; six at one time, the first two at the threshold; ten
\* in ten hours, three of them at the threshold
SpreadBatches ==
    {Spread(5, 18, 1, TRUE), Spread(5, 18, 2, TRUE), Spread(5, 19, 1, TRUE),
     Spread(5, 18, 1, FALSE), Spread(6, 0, 2, FALSE), Spread(10, 1, 3, TRUE)}

DenseBatches ==
    {Dense(n, 3, 4) : n \in 4..MaxDense}

ChainBatches == {Chain(n, gap) : n \in 2..MaxChain, gap \in {1, 30}}

FanBatches ==
    {Fan(m, o, a, r) : m \in 4..MaxFan, o \in BOOLEAN,
                       a \in {AmountUnit, 200 * AmountUnit}, r \in BOOLEAN}

OddBatches ==
    {TwoRings, TwoWayRing, PayrollRing, Complete(4), Complete(5), Bypass,
     Detour(MaxChainDepth - 1), Detour(MaxChainDepth),
     <<Edge(1, 1, 2, AmountUnit, 0), Edge(1, 2, 3, AmountUnit, 1)>>,
     <<Edge(1, 1, 2, 0 - AmountUnit, 0)>>,
     <<Edge(1, 1, 2, AmountUnit, 0), Edge(PaddedBase + 1, 2, 3, AmountUnit, 1)>>,
     [r \in 1..3 |-> Edge(r, 1, 2, AmountUnit, 3 - r)],
     <<Edge(1, 2, LowerBase + 1, AmountUnit, 0), Edge(2, LowerBase + 1, 3, AmountUnit, 1),
       Edge(3, 3, 2, AmountUnit, 2), Edge(4, 1, 2, AmountUnit, 3)>>}

\* a chain one account longer than the interpreter's recursion limit
LongChain == Chain(RecursionLimit + 1, 1)

Batches ==
    SmallBatches \cup RingBatches \cup DenseBatches \cup ChainBatches \cup FanBatches
        \cup OddBatches \cup {LongChain} \cup ScenarioBBatches
        \cup ScenarioCBatches \cup SpreadBatches

\* the endpoint and its query parameters
Requests ==
    {[endpoint |-> "detect", preset |-> "none", min_score |-> NoScore,
      enable_validation |-> FALSE]}
    \cup {[endpoint |-> "enhanced", preset |-> p, min_score |-> NoScore,
           enable_validation |-> v] :
                p \in {"none", "aggressive", "conservative"}, v \in BOOLEAN}
    \cup {[endpoint |-> "enhanced", preset |-> "none", min_score |-> 75,
           enable_validation |-> FALSE]}

(***************************************************************************)
(* The service.  One request is handled at a time; pc is the position of   *)
(* its handler, detect_fraud or detect_fraud_enhanced.  detect_fraud runs  *)
(* detect_cycles on an executor thread and awaits it for at most 30        *)
(* seconds; detect_fraud_enhanced calls it inline.                         *)
(***************************************************************************)
VARIABLES
    pc,                 \* position of the handler
    request,            \* endpoint, query parameters and the uploaded file:
                        \* its rows, and whether it has a header line
    rows,               \* the rows handed to build_graph_from_csv
    graph,              \* GraphData
    worker,             \* executor thread: "idle", "running" or "finished"
    detected,           \* what the last call of detect_cycles returned, if any
    timed_out,          \* asyncio.TimeoutError was caught
    fraud_rings,
    cycle_members,
    smurfing_accounts,
    shell_accounts,
    scored_accounts,
    filtered_accounts,
    response,           \* <<body>> once the handler has returned one
    status,             \* HTTP status of the answer, 0 before it
    failed_stage,       \* the call whose exception ended the request
    previous            \* <<body>> of the answer to the same upload before

vars == <<pc, request, rows, graph, worker, detected, timed_out, fraud_rings,
          cycle_members, smurfing_accounts, shell_accounts, scored_accounts,
          filtered_accounts, response, status, failed_stage, previous>>

stages == <<fraud_rings, cycle_members, smurfing_accounts, shell_accounts,
            scored_accounts, filtered_accounts>>

NoRequest ==
    [endpoint |-> "none", preset |-> "none", min_score |-> NoScore,
     enable_validation |-> FALSE, rows |-> <<>>, header |-> FALSE]

Init ==
    /\ pc = "idle"
    /\ request = NoRequest
    /\ rows = <<>>
    /\ graph = GraphData
    /\ worker = "idle"
    /\ detected = <<>>
    /\ timed_out = FALSE
    /\ fraud_rings = <<>>
    /\ cycle_members = {}
    /\ smurfing_accounts = {}
    /\ shell_accounts = {}
    /\ scored_accounts = <<>>
    /\ filtered_accounts = <<>>
    /\ response = <<>>
    /\ status = 0
    /\ failed_stage = "none"
    /\ previous = <<>>

config == load_config(request.preset, request.min_score)

\* the handler's state at the arrival of an upload
Arrive(req) ==
    /\ pc' = "received"
    /\ request' = req
    /\ rows' = req.rows
    /\ graph' = GraphData
    /\ worker' = "idle"
    /\ detected' = <<>>
    /\ timed_out' = FALSE
    /\ fraud_rings' = <<>>
    /\ cycle_members' = {}
    /\ smurfing_accounts' = {}
    /\ shell_accounts' = {}
    /\ scored_accounts' = <<>>
    /\ filtered_accounts' = <<>>
    /\ response' = <<>>
    /\ status' = 0
    /\ failed_stage' = "none"

\* a client uploads a batch
Receive ==
    /\ pc = "idle"
    /\ \E batch \in Batches, req \in Requests :
          Arrive(req @@ [rows |-> batch, header |-> TRUE])
    /\ previous' = <<>>

\* a client uploads a file without data rows: the header line alone, or no
\* bytes at all
ReceiveEmpty ==
    /\ pc = "idle"
    /\ \E h \in BOOLEAN, req \in Requests :
          Arrive(req @@ [rows |-> <<>>, header |-> h])
    /\ previous' = <<>>

\* the same upload is sent again to POST /detect, after its answer
Resubmit ==
    /\ pc = "responded"
    /\ previous = <<>>
    /\ Arrive(request)
    /\ previous' = response

\* an exception leaves the handler: the answer is an error of this status
Fail(code, stage) ==
    /\ pc' = "failed"
    /\ status' = code
    /\ failed_stage' = stage

\* pd.read_csv: a file of no bytes has no columns to parse, which raises
\* EmptyDataError, a ValueError
read_csv(file) == IF file.header THEN "ok" ELSE "empty_data_error"

\* FileProcessor.read_csv_optimized: read_csv, then _optimize_dtypes, which
\* divides the number of distinct ids by the number of rows
read_csv_optimized(file) ==
    IF read_csv(file) # "ok" THEN read_csv(file)
    ELSE IF Len(file.rows) = 0 THEN "zero_division_error"
    ELSE "ok"

\* detect_enhanced.py lines 78-115
Validate ==
    /\ pc = "received"
    /\ request.endpoint = "enhanced"
    /\ IF ~request.enable_validation
       THEN /\ pc' = "validated"
            /\ UNCHANGED <<rows, status, failed_stage>>
       ELSE IF read_csv_optimized(request) # "ok"
       THEN Fail(500, "read_csv_optimized") /\ UNCHANGED rows
       ELSE IF validate_data_types(rows) = "type_error"
       THEN Fail(500, "validate_data_types") /\ UNCHANGED rows
       ELSE IF validate_data_types(rows) = "invalid"
       THEN Fail(400, "validate_data_types") /\ UNCHANGED rows
       ELSE /\ pc' = "validated"
            /\ rows' = clean_data(rows)
            /\ UNCHANGED <<status, failed_stage>>
    /\ UNCHANGED <<request, graph, worker, detected, timed_out, stages, response,
                   previous>>

\* detect.py line 46, detect_enhanced.py line 118
BuildGraph ==
    /\ \/ pc = "received" /\ request.endpoint = "detect"
       \/ pc = "validated"
    /\ IF read_csv(request) = "ok"
       THEN /\ graph' = build_graph_from_csv(rows)
            /\ pc' = "graph_built"
            /\ UNCHANGED <<status, failed_stage>>
       ELSE /\ Fail(IF request.endpoint = "detect" THEN 400 ELSE 500,
                    "build_graph_from_csv")
            /\ UNCHANGED graph
    /\ UNCHANGED <<request, rows, worker, detected, timed_out, stages, response,
                   previous>>

\* run_cycle_detection: the call is handed to the executor and awaited
StartCycleDetection ==
    /\ pc = "graph_built"
    /\ request.endpoint = "detect"
    /\ worker' = "running"
    /\ pc' = "awaiting"
    /\ UNCHANGED <<request, rows, graph, detected, timed_out, stages, response,
                   status, failed_stage, previous>>

\* the executor thread completes detect_cycles(graph), before the deadline
\* or after it
WorkerFinish ==
    /\ worker = "running"
    /\ detected' = <<detect_cycles(graph, default_max_results)>>
    /\ worker' = "finished"
    /\ UNCHANGED <<pc, request, rows, graph, timed_out, stages, response, status,
                   failed_stage, previous>>

\* the awaited future is done: its result, or its exception, reaches the
\* handler
Resume ==
    /\ pc = "awaiting"
    /\ worker = "finished"
    /\ IF detected[1].raised
       THEN /\ Fail(500, "detect_cycles")
            /\ UNCHANGED <<fraud_rings, cycle_members>>
       ELSE /\ fraud_rings' = detected[1].rings
            /\ cycle_members' = members_of(detected[1].rings)
            /\ pc' = "cycles_done"
            /\ UNCHANGED <<status, failed_stage>>
    /\ UNCHANGED <<request, rows, graph, worker, detected, timed_out,
                   smurfing_accounts, shell_accounts, scored_accounts,
                   filtered_accounts, response, previous>>

late_result(g) == detect_cycles(g, default_max_results).rings

\* what run_cycle_detection returns on asyncio.TimeoutError
on_timeout(g) == <<>>

\* the deadline passes while the future is pending
Timeout ==
    /\ pc = "awaiting"
    /\ worker = "running"
    /\ timed_out' = TRUE
    /\ fraud_rings' = on_timeout(graph)
    /\ cycle_members' = members_of(on_timeout(graph))
    /\ pc' = "cycles_done"
    /\ UNCHANGED <<request, rows, graph, worker, detected, smurfing_accounts,
                   shell_accounts, scored_accounts, filtered_accounts, response,
                   status, failed_stage, previous>>

\* a smurfing stage that orders each sender's transactions by time in the
\* Graph itself (list.sort) rather than in a copy (sorted)
DetectSmurfingSortingInPlace ==
    /\ pc = "cycles_done"
    /\ request.endpoint = "detect"
    /\ smurfing_accounts' = detect_smurfing(graph)
    /\ graph' = [graph EXCEPT !.adjacency_list =
                    [a \in DOMAIN @ |-> by_timestamp(@[a])]]
    /\ pc' = "smurfing_done"
    /\ UNCHANGED <<request, rows, worker, detected, timed_out, fraud_rings,
                   cycle_members, shell_accounts, scored_accounts,
                   filtered_accounts, response, status, failed_stage, previous>>

DetectSmurfing ==
    /\ pc = "cycles_done"
    /\ request.endpoint = "detect"
    /\ smurfing_accounts' = detect_smurfing(graph)
    /\ pc' = "smurfing_done"
    /\ UNCHANGED <<request, rows, graph, worker, detected, timed_out, fraud_rings,
                   cycle_members, shell_accounts, scored_accounts,
                   filtered_accounts, response, status, failed_stage, previous>>

DetectShell ==
    /\ pc = "smurfing_done"
    /\ request.endpoint = "detect"
    /\ shell_accounts' = detect_shell_accounts(graph)
    /\ pc' = "shells_done"
    /\ UNCHANGED <<request, rows, graph, worker, detected, timed_out, fraud_rings,
                   cycle_members, smurfing_accounts, scored_accounts,
                   filtered_accounts, response, status, failed_stage, previous>>

Score ==
    /\ pc = "shells_done"
    /\ request.endpoint = "detect"
    /\ \E seed \in 1..NumSeeds :
          scored_accounts' = score_accounts(graph, cycle_members, smurfing_accounts,
                                            shell_accounts, fraud_rings, seed)
    /\ pc' = "scoring_done"
    /\ UNCHANGED <<request, rows, graph, worker, detected, timed_out, fraud_rings,
                   cycle_members, smurfing_accounts, shell_accounts,
                   filtered_accounts, response, status, failed_stage, previous>>

Filter ==
    /\ pc = "scoring_done"
    /\ request.endpoint = "detect"
    /\ filtered_accounts' = filter_false_positives(scored_accounts, graph, cycle_members)
    /\ pc' = "filtered"
    /\ UNCHANGED <<request, rows, graph, worker, detected, timed_out, fraud_rings,
                   cycle_members, smurfing_accounts, shell_accounts,
                   scored_accounts, response, status, failed_stage, previous>>

BuildOutput ==
    /\ pc = "filtered"
    /\ request.endpoint = "detect"
    /\ response' = <<build_output(filtered_accounts, fraud_rings, graph)>>
    /\ status' = 200
    /\ pc' = "responded"
    /\ UNCHANGED <<request, rows, graph, worker, detected, timed_out, stages,
                   failed_stage, previous>>

\* detect_enhanced.py line 122: the handler calls detect_cycles itself, on
\* the event loop
EnhancedStartCycleDetection ==
    /\ pc = "graph_built"
    /\ request.endpoint = "enhanced"
    /\ pc' = "detecting"
    /\ UNCHANGED <<request, rows, graph, worker, detected, timed_out, stages,
                   response, status, failed_stage, previous>>

\* thirty seconds pass while the handler is inside detect_cycles: nothing
\* awaits the call, the handler stays in it
EnhancedDeadlinePasses ==
    /\ pc = "detecting"
    /\ pc' = "detecting_overdue"
    /\ UNCHANGED <<request, rows, graph, worker, detected, timed_out, stages,
                   response, status, failed_stage, previous>>

\* detect_enhanced.py lines 121-126: detect_cycles returns; an exception of
\* it leaves the handler
EnhancedDetectCycles ==
    /\ pc \in {"detecting", "detecting_overdue"}
    /\ request.endpoint = "enhanced"
    /\ LET found == detect_cycles(graph, default_max_results)
           kept == EnhancedCycleDetector_detect(config, found.rings)
       IN  /\ detected' = <<found>>
           /\ IF found.raised
              THEN /\ Fail(500, "detect_cycles")
                   /\ UNCHANGED <<fraud_rings, cycle_members>>
              ELSE /\ fraud_rings' = kept
                   /\ cycle_members' = members_of(kept)
                   /\ pc' = "cycles_done"
                   /\ UNCHANGED <<status, failed_stage>>
    /\ UNCHANGED <<request, rows, graph, worker, timed_out, smurfing_accounts,
                   shell_accounts, scored_accounts, filtered_accounts, response,
                   previous>>

EnhancedDetectSmurfing ==
    /\ pc = "cycles_done"
    /\ request.endpoint = "enhanced"
    /\ smurfing_accounts' =
          EnhancedSmurfingDetector_detect(config, graph, detect_smurfing(graph))
    /\ pc' = "smurfing_done"
    /\ UNCHANGED <<request, rows, graph, worker, detected, timed_out, fraud_rings,
                   cycle_members, shell_accounts, scored_accounts,
                   filtered_accounts, response, status, failed_stage, previous>>

EnhancedDetectShell ==
    /\ pc = "smurfing_done"
    /\ request.endpoint = "enhanced"
    /\ shell_accounts' =
          EnhancedShellDetector_detect(config, detect_shell_accounts(graph))
    /\ pc' = "shells_done"
    /\ UNCHANGED <<request, rows, graph, worker, detected, timed_out, fraud_rings,
                   cycle_members, smurfing_accounts, scored_accounts,
                   filtered_accounts, response, status, failed_stage, previous>>

EnhancedScore ==
    /\ pc = "shells_done"
    /\ request.endpoint = "enhanced"
    /\ \E seed \in 1..NumSeeds :
          scored_accounts' =
              EnhancedScorer_score_accounts(config, graph, cycle_members,
                  smurfing_accounts, shell_accounts, fraud_rings, seed)
    /\ pc' = "scoring_done"
    /\ UNCHANGED <<request, rows, graph, worker, detected, timed_out, fraud_rings,
                   cycle_members, smurfing_accounts, shell_accounts,
                   filtered_accounts, response, status, failed_stage, previous>>

EnhancedFilter ==
    /\ pc = "scoring_done"
    /\ request.endpoint = "enhanced"
    /\ filtered_accounts' =
          EnhancedFalsePositiveGuard_filter(config, scored_accounts, graph,
                                            cycle_members)
    /\ pc' = "filtered"
    /\ UNCHANGED <<request, rows, graph, worker, detected, timed_out, fraud_rings,
                   cycle_members, smurfing_accounts, shell_accounts,
                   scored_accounts, response, status, failed_stage, previous>>

\* detect_enhanced.py line 155 reads processing_time, which line 158 assigns:
\* evaluating the arguments of build_output raises UnboundLocalError
EnhancedBuildOutput ==
    /\ pc = "filtered"
    /\ request.endpoint = "enhanced"
    /\ Fail(500, "build_output")
    /\ UNCHANGED <<request, rows, graph, worker, detected, timed_out, stages,
                   response, previous>>

Next ==
    \/ ReceiveEmpty
    \/ Receive
    \/ Resubmit
    \/ Validate
    \/ BuildGraph
    \/ StartCycleDetection
    \/ WorkerFinish
    \/ Resume
    \/ Timeout
    \/ DetectSmurfing
    \/ DetectShell
    \/ Score
    \/ Filter
    \/ BuildOutput
    \/ EnhancedStartCycleDetection
    \/ EnhancedDeadlinePasses
    \/ EnhancedDetectCycles
    \/ EnhancedDetectSmurfing
    \/ EnhancedDetectShell
    \/ EnhancedScore
    \/ EnhancedFilter
    \/ EnhancedBuildOutput

Spec == Init /\ [][Next]_vars

(***************************************************************************)
(* Properties                                                              *)
(***************************************************************************)
\* the rings the last call of detect_cycles returned
Reported == IF detected = <<>> \/ detected[1].raised THEN <<>> ELSE detected[1].rings

\* C1: every ring detect_cycles reports lists no account twice, and its
\* first member is the smallest member of the ring.
C1_MembersCanonical ==
    \A i \in 1..Len(Reported) :
        LET m == Reported[i].members
        IN  /\ Cardinality(Range(m)) = Len(m)
            /\ \A j \in 1..Len(m) : m[1] <= m[j]

\* C2: every ring detect_cycles reports has a cycle_length of 3, 4 or 5,
\* and as many members as its cycle_length says.
C2_CycleLengthBounds ==
    \A i \in 1..Len(Reported) :
        /\ Reported[i].cycle_length >= 3
        /\ Reported[i].cycle_length <= 5
        /\ Len(Reported[i].members) = Reported[i].cycle_length

\* a ring of the largest admitted length is reported
C2_Witness == \E i \in 1..Len(Reported) : Reported[i].cycle_length = 5

\* C3: every suspicion_score of the base and the enhanced scorer, and every
\* risk_score of the cycle detector, lies in [0, 100].
C3_ScoresInRange ==
    /\ \A i \in 1..Len(scored_accounts) :
          /\ scored_accounts[i].suspicion_score >= 0
          /\ scored_accounts[i].suspicion_score <= 100
    /\ \A i \in 1..Len(Reported) :
          /\ Reported[i].risk_score >= 0
          /\ Reported[i].risk_score <= 100

\* an account is scored 100 whose flags add up to more: 50 + 30 + 20 + 10
C3_Witness ==
    \E i \in 1..Len(scored_accounts) :
        /\ scored_accounts[i].suspicion_score = 100
        /\ {"cycle_member", "fan_out_smurfing", "below_threshold_structuring",
            "multiple_patterns"} \subseteq Range(scored_accounts[i].flags)

\* C4: once the deadline has passed in POST /detect the request goes on
\* without an error and without rings: no ring and no cycle member is kept,
\* no account is flagged cycle_member, no later stage fails, and
\* the answer lists no ring, counts none, and carries the accounts the
\* smurfing, shell, scoring and filtering stages produce, whatever the
\* abandoned worker returns afterwards.
C4_TimeoutCompletesWithoutRings ==
    timed_out =>
        /\ status \in {0, 200}
        /\ pc \in {"cycles_done", "smurfing_done", "shells_done", "scoring_done",
                   "filtered", "responded"}
        /\ fraud_rings = <<>>
        /\ cycle_members = {}
        /\ \A i \in 1..Len(scored_accounts) :
              "cycle_member" \notin Range(scored_accounts[i].flags)
        /\ failed_stage = "none"
        /\ pc = "responded" =>
              /\ response[1].fraud_rings = <<>>
              /\ response[1].summary.fraud_rings_detected = 0
              /\ \A i \in 1..Len(response[1].suspicious_accounts) :
                    "cycle_member" \notin
                        Range(response[1].suspicious_accounts[i].detected_patterns)
              /\ smurfing_accounts = detect_smurfing(graph)
              /\ shell_accounts = detect_shell_accounts(graph)
              /\ {scored_accounts[i].account_id : i \in 1..Len(scored_accounts)}
                    = smurfing_accounts \cup shell_accounts
              /\ response[1].suspicious_accounts
                    = build_output(filter_false_positives(scored_accounts, graph, {}),
                                   <<>>, graph).suspicious_accounts

\* the request has been answered after a timeout, the worker has since
\* returned rings, and the answer still flags accounts
C4_Witness ==
    /\ timed_out
    /\ pc = "responded"
    /\ worker = "finished"
    /\ Reported # <<>>
    /\ response[1].suspicious_accounts # <<>>

\* C5: detect_cycles returns a result for every graph the builder produces;
\* SCC discovery does not fail on a long path.
C5_DetectCyclesNeverRaises ==
    /\ detected # <<>> => ~detected[1].raised
    /\ failed_stage # "detect_cycles"

\* C6: the same upload sent twice to POST /detect, neither run cut short by
\* the deadline, gets the same ring list and the same suspicious-account
\* list, accounts of equal score in the same order.
C6_RepeatedRunSameLists ==
    (/\ pc = "responded"
     /\ previous # <<>>
     /\ ~timed_out
     /\ response[1].fraud_rings = previous[1].fraud_rings)
        => response[1].suspicious_accounts = previous[1].suspicious_accounts

\* C7: for the chain 1 -> 2 -> 3 -> 4, each hop one hour after the one
\* before and of the same amount, detect_shell_accounts flags 2 and 3 only.
C7_ScenarioD ==
    (/\ pc = "shells_done"
     /\ request.endpoint = "detect"
     /\ request.rows = Chain(4, 1))
        => shell_accounts = {2, 3}

\* all rows lie on one directed 3-cycle and carry the same amount
OneThreeCycle(rs) ==
    LET pairs == {<<rs[i].sender_id, rs[i].receiver_id>> : i \in 1..Len(rs)}
        accounts == column(rs, "sender_id")
    IN  /\ Cardinality(pairs) = 3
        /\ Cardinality(accounts) = 3
        /\ Cardinality(column(rs, "amount")) = 1
        /\ \E a \in accounts : \E b \in accounts \ {a} : \E c \in accounts \ {a, b} :
              pairs = {<<a, b>>, <<b, c>>, <<c, a>>}

\* C8 as the spec words it: one directed 3-cycle with identical amounts
\* gives exactly one ring, of risk_score at least 80.
C8_OneRingRiskAtLeast80 ==
    (detected # <<>> /\ OneThreeCycle(graph.transactions))
        => /\ Len(Reported) = 1
           /\ Reported[1].risk_score >= 80

\* C8, amended: one directed 3-cycle with identical amounts gives exactly
\* one ring; its risk_score is at least 50, at least 70 when the amount is
\* positive, and 85 when moreover the cycle carries more than six
\* transactions.
C8_OneRingRiskAtLeast70 ==
    (detected # <<>> /\ OneThreeCycle(graph.transactions))
        => /\ Len(Reported) = 1
           /\ Reported[1].risk_score >= 50
           /\ graph.transactions[1].amount > 0 => Reported[1].risk_score >= 70
           /\ (graph.transactions[1].amount > 0 /\ Len(graph.transactions) > 6)
                 => Reported[1].risk_score = 85

\* three transactions of the same positive amount on one 3-cycle: the one
\* ring reported has risk_score 70
C8_Witness ==
    /\ detected # <<>>
    /\ OneThreeCycle(graph.transactions)
    /\ graph.transactions[1].amount > 0
    /\ Len(Reported) = 1
    /\ Reported[1].risk_score = 70

\* the connected_rings of every account name exactly the rings, by index
\* from 0, that list the account, in ascending order
RingIndexAgrees(accounts, ring_members) ==
    \A i \in 1..Len(accounts) :
        LET listed == accounts[i].connected_rings
        IN  /\ \A k \in 0..(Len(ring_members) - 1) :
                  (k \in Range(listed)) <=>
                      (accounts[i].account_id \in Range(ring_members[k + 1]))
            /\ Range(listed) \subseteq 0..(Len(ring_members) - 1)
            /\ \A p \in 1..Len(listed) : \A q \in 1..Len(listed) :
                  p < q => listed[p] < listed[q]

\* C9: in the response of POST /detect, and in the accounts and the filtered
\* ring list the enhanced handler passes to the assembler, i is in an
\* account's connected_rings iff the account is a member of ring i, and the
\* indices ascend.
C9_ConnectedRingsAgree ==
    /\ response # <<>> =>
          RingIndexAgrees(response[1].suspicious_accounts,
              [i \in 1..Len(response[1].fraud_rings) |->
                  response[1].fraud_rings[i].member_accounts])
    /\ request.endpoint = "enhanced" =>
          RingIndexAgrees(filtered_accounts,
              [i \in 1..Len(fraud_rings) |-> fraud_rings[i].members])

\* the enhanced handler has dropped a ring and kept another, and an account
\* that survived the filter is connected to a kept ring
C9_Witness ==
    /\ request.endpoint = "enhanced"
    /\ pc = "filtered"
    /\ fraud_rings # <<>>
    /\ Len(fraud_rings) < Len(Reported)
    /\ \E i \in 1..Len(filtered_accounts) : filtered_accounts[i].connected_rings # <<>>

\* C10: no edge of the Graph has its sender as its receiver, whatever the
\* endpoint and whether validation is on or off.
C10_NoSelfLoopInGraph ==
    \A key \in DOMAIN graph.edge_index : key[1] # key[2]

\* C11: a request whose upload has no data row (no bytes at all, or the
\* header line alone) is never answered with a result object; it ends with
\* a validation failure, status 400.
C11_EmptyInputRejected ==
    (request.endpoint # "none" /\ request.rows = <<>>)
        => /\ response = <<>>
           /\ status \in {0, 400}

\* C12: the rows the enhanced handler hands to the graph builder after
\* validation and cleaning have pairwise distinct, trimmed transaction ids,
\* no row with its sender as its receiver, positive amounts only, and
\* trimmed, upper-case account ids.
C12_CleanedRowsKeepEdgeInvariant ==
    (request.endpoint = "enhanced" /\ request.enable_validation /\ pc = "validated")
        => /\ Cardinality(column(rows, "transaction_id")) = Len(rows)
           /\ \A i \in 1..Len(rows) :
                 /\ rows[i].transaction_id = strip(rows[i].transaction_id)
                 /\ rows[i].sender_id # rows[i].receiver_id
                 /\ rows[i].amount > 0
                 /\ rows[i].sender_id = upper(rows[i].sender_id)
                 /\ rows[i].receiver_id = upper(rows[i].receiver_id)

\* C13: in the Graph the builder has made of the rows it was handed, every
\* account's out_degree and in_degree are the lengths of its adjacency and
\* reverse-adjacency lists, its transaction_count is their sum and at least
\* 1, the node set is the key set of the stats, an account has no more
\* unique receivers / senders than out_degree / in_degree, first_tx is not
\* after last_tx, and the lists of edge_index hold every row exactly once.
C13_GraphStatsConsistent ==
    LET tx == graph.transactions
        adj == graph.adjacency_list
        rev == graph.reverse_adj
        key_of(e) == <<e.sender_id, e.receiver_id>>
    IN  /\ graph.node_set = DOMAIN graph.node_stats
        /\ graph.node_set = DOMAIN adj \cup DOMAIN rev
        /\ \A a \in graph.node_set :
              LET st == graph.node_stats[a]
              IN  /\ st.out_degree = Len(Get(adj, a, <<>>))
                  /\ st.in_degree = Len(Get(rev, a, <<>>))
                  /\ st.transaction_count = st.in_degree + st.out_degree
                  /\ st.transaction_count >= 1
                  /\ Cardinality(st.unique_receivers) <= st.out_degree
                  /\ Cardinality(st.unique_senders) <= st.in_degree
                  /\ st.first_tx # NoTime
                  /\ st.first_tx <= st.last_tx
        /\ DOMAIN graph.edge_index = {key_of(tx[i]) : i \in 1..Len(tx)}
        /\ \A key \in DOMAIN graph.edge_index :
              graph.edge_index[key]
                  = SelectSeq(Get(adj, key[1], <<>>), LAMBDA e : e.receiver_id = key[2])
        /\ Range(graph.adj_keys) = DOMAIN adj
        /\ SumSeq([i \in 1..Len(graph.adj_keys) |-> Len(adj[graph.adj_keys[i]])]) = Len(tx)
        /\ \A i \in 1..Len(tx) : tx[i] \in Range(adj[tx[i].sender_id])
        /\ \A a \in DOMAIN adj : \A i \in 1..Len(adj[a]) : adj[a][i].sender_id = a

\* a graph is built in which an account was paid three times by one sender,
\* the payments arriving in the order opposite to their timestamps
C13_Witness ==
    /\ pc = "graph_built"
    /\ \E a \in graph.node_set :
          /\ graph.node_stats[a].in_degree = 3
          /\ Cardinality(graph.node_stats[a].unique_senders) = 1
          /\ graph.node_stats[a].first_tx < graph.node_stats[a].last_tx
          /\ graph.transactions[1].timestamp > graph.transactions[3].timestamp

\* the entries of account a in a list of scored accounts
EntriesOf(accounts, a) ==
    {accounts[i] : i \in {j \in 1..Len(accounts) : accounts[j].account_id = a}}

\* C14: Scenario B on POST /detect: account 1 is in the smurfing set, is
\* scored at least 50 with the flags fan_out_smurfing and
\* below_threshold_structuring, is kept by the false-positive guard and is
\* listed in the response.
C14_ScenarioB ==
    (request.endpoint = "detect" /\ request.rows \in ScenarioBBatches)
        => /\ pc \in {"smurfing_done", "shells_done", "scoring_done", "filtered",
                      "responded"} => 1 \in smurfing_accounts
           /\ pc \in {"scoring_done", "filtered", "responded"} =>
                 /\ EntriesOf(scored_accounts, 1) # {}
                 /\ \A e \in EntriesOf(scored_accounts, 1) :
                       /\ {"fan_out_smurfing", "below_threshold_structuring"}
                             \subseteq Range(e.flags)
                       /\ e.suspicion_score >= 50
           /\ pc \in {"filtered", "responded"} =>
                 EntriesOf(filtered_accounts, 1) # {}
           /\ pc = "responded" =>
                 \E i \in 1..Len(response[1].suspicious_accounts) :
                     response[1].suspicious_accounts[i].account_id = 1

\* Scenario B has been answered: the response lists account 1 with the two
\* flags
C14_Witness ==
    /\ request.endpoint = "detect"
    /\ request.rows \in ScenarioBBatches
    /\ pc = "responded"
    /\ \E i \in 1..Len(response[1].suspicious_accounts) :
          /\ response[1].suspicious_accounts[i].account_id = 1
          /\ {"fan_out_smurfing", "below_threshold_structuring"}
                \subseteq Range(response[1].suspicious_accounts[i].detected_patterns)

\* C15: Scenario C: AMAZON_STORE is in no ring and is absent from the
\* filtered accounts of both endpoints and from the response; on POST
\* /detect it is scored and has the merchant signature, on POST
\* /detect/enhanced the whitelist keeps it out of the smurfing set already.
C15_ScenarioC ==
    (request.rows \in ScenarioCBatches)
        => /\ AMAZON_STORE \notin cycle_members
           /\ (request.endpoint = "detect"
                 /\ pc \in {"scoring_done", "filtered", "responded"}) =>
                 /\ EntriesOf(scored_accounts, AMAZON_STORE) # {}
                 /\ _is_merchant(AMAZON_STORE, graph.node_stats[AMAZON_STORE],
                                 cycle_members, DetectionConfig)
           /\ request.endpoint = "enhanced" => AMAZON_STORE \notin smurfing_accounts
           /\ EntriesOf(filtered_accounts, AMAZON_STORE) = {}
           /\ response # <<>> =>
                 \A i \in 1..Len(response[1].suspicious_accounts) :
                     response[1].suspicious_accounts[i].account_id # AMAZON_STORE

\* Scenario C has been answered by POST /detect: AMAZON_STORE was scored
\* with the flag fan_in_smurfing and at least 40, and the response omits it
C15_Witness ==
    /\ request.rows \in ScenarioCBatches
    /\ request.endpoint = "detect"
    /\ pc = "responded"
    /\ \E e \in EntriesOf(scored_accounts, AMAZON_STORE) :
          /\ "fan_in_smurfing" \in Range(e.flags)
          /\ e.suspicion_score >= MIN_SUSPICION_SCORE

\* C16: Scenario F: on POST /detect/enhanced with the conservative preset,
\* account 1 of Scenario B is scored without the flag fan_out_smurfing and
\* is absent from the accounts that pass the filter.
C16_ScenarioF ==
    (/\ request.endpoint = "enhanced"
     /\ request.preset = "conservative"
     /\ request.rows \in ScenarioBBatches)
        => /\ \A e \in EntriesOf(scored_accounts, 1) :
                 "fan_out_smurfing" \notin Range(e.flags)
           /\ EntriesOf(filtered_accounts, 1) = {}
           /\ response = <<>>

\* Scenario F has passed the filter: account 1 was scored, below 55
C16_Witness ==
    /\ request.endpoint = "enhanced"
    /\ request.preset = "conservative"
    /\ request.rows \in ScenarioBBatches
    /\ pc = "filtered"
    /\ \E e \in EntriesOf(scored_accounts, 1) : e.suspicion_score < 55

\* the smurfing set decided with the values of a configuration
SmurfingUnder(cfg, g) ==
    {node \in DOMAIN g.node_stats :
        \/ /\ g.node_stats[node].out_degree >= cfg.MIN_FAN_DEGREE
           /\ _check_smurfing_pattern(Get(g.adjacency_list, node, <<>>),
                                      cfg.SMURFING_THRESHOLD, cfg.TIME_WINDOW_HOURS)
        \/ /\ g.node_stats[node].in_degree >= cfg.MIN_FAN_DEGREE
           /\ _check_smurfing_pattern(Get(g.reverse_adj, node, <<>>),
                                      cfg.SMURFING_THRESHOLD, cfg.TIME_WINDOW_HOURS)}

\* C17: on POST /detect/enhanced the smurfing set is the one decided with
\* MIN_FAN_DEGREE, TIME_WINDOW_HOURS and SMURFING_THRESHOLD of the
\* configuration in force for the request (without the whitelisted
\* accounts, with the high-risk ones).
C17_SmurfingUsesConfig ==
    (/\ request.endpoint = "enhanced"
     /\ pc \in {"smurfing_done", "shells_done", "scoring_done", "filtered"})
        => smurfing_accounts
              = EnhancedSmurfingDetector_detect(config, graph, SmurfingUnder(config, graph))

\* C18: when the deadline passes while POST /detect/enhanced is detecting
\* cycles, the handler goes on with an empty ring set: the step that takes
\* it out of the overdue detection leaves no ring and no cycle member.
C18_EnhancedDeadline ==
    [][(pc = "detecting_overdue" /\ pc' = "cycles_done")
          => (fraud_rings' = <<>> /\ cycle_members' = {})]_vars

\* the positions of a request whose Graph has been built
AfterGraphConstruction ==
    \/ pc \in {"graph_built", "awaiting", "detecting", "detecting_overdue",
               "cycles_done", "smurfing_done", "shells_done", "scoring_done",
               "filtered"}
    \/ pc = "responded" /\ response # <<>>
    \/ pc = "failed" /\ failed_stage \in {"detect_cycles", "build_output"}

\* C19: once the Graph is built, no stage changes it: during and after
\* detect_cycles, detect_smurfing, detect_shell_accounts, score_accounts,
\* filter_false_positives and build_output, on both endpoints, adjacency,
\* reverse adjacency, edge index, nodes and stats are what construction
\* made of the rows.
C19_StagesLeaveGraphUnchanged ==
    AfterGraphConstruction => graph = build_graph_from_csv(rows)

\* a response was built from a Graph one of whose senders has its
\* transactions against their timestamps: every stage has read the Graph
C19_Witness ==
    /\ pc = "responded"
    /\ response # <<>>
    /\ \E a \in DOMAIN graph.adjacency_list :
          by_timestamp(graph.adjacency_list[a]) # graph.adjacency_list[a]

\* b is a with its members shifted round by some number of places
IsRotation(a, b) ==
    /\ Len(a) = Len(b)
    /\ \E k \in 0..(Len(a) - 1) :
          \A i \in 1..Len(a) : b[i] = a[((i + k - 1) % Len(a)) + 1]

\* the members in the opposite direction
Reversal(members) == [i \in 1..Len(members) |-> members[Len(members) + 1 - i]]

\* every member pays the next one, the last one the first
IsDirectedCycle(members, g) ==
    \A i \in 1..Len(members) :
        <<members[i], members[(i % Len(members)) + 1]>> \in DOMAIN g.edge_index

\* one of the limits of the search cut the list short: max_results rings,
\* max_cycles raw cycles in a component, more than 50 accounts in a
\* component, more than 20 components
CapBinds(g) ==
    LET found == _tarjan_scc(g.adjacency_list, g.adj_keys)
        big == SelectSeq(found.result, LAMBDA sc : Cardinality(sc) >= 2)
    IN  \/ Len(Reported) >= default_max_results
        \/ Len(big) > MaxSccs
        \/ \E i \in 1..Len(big) :
              \/ Cardinality(big[i]) > MaxStartNodes
              \/ Len(_find_cycles_in_scc(big[i], g.adjacency_list)) >= max_cycles

Receivers(g, a) == {k[2] : k \in {e \in DOMAIN g.edge_index : e[1] = a}}

\* the paths of n accounts that start at s, follow the transactions,
\* repeat no account and pass through no account below s
RECURSIVE PathsFrom(_, _, _)
PathsFrom(g, s, n) ==
    IF n = 1 THEN {<<s>>}
    ELSE UNION {{Append(p, b) : b \in {r \in Receivers(g, p[Len(p)]) :
                                          r > s /\ r \notin Range(p)}} :
                    p \in PathsFrom(g, s, n - 1)}

\* the simple directed cycles of min_len to max_len accounts, each written
\* from its smallest account
SimpleCycles(g) ==
    UNION {UNION {{p \in PathsFrom(g, s, n) : s \in Receivers(g, p[n])} :
                      n \in min_len..max_len} : s \in g.node_set}

\* C21: when no limit of the search binds, detect_cycles reports exactly
\* one ring for every simple directed cycle of 3 to 5 accounts of the Graph,
\* counted up to rotation, and every reported ring is a rotation of such a
\* cycle.
C21_ExactlyTheSimpleCycles ==
    (/\ pc = "cycles_done"
     /\ detected # <<>>
     /\ ~detected[1].raised
     /\ ~CapBinds(graph))
        => /\ \A c \in SimpleCycles(graph) :
                 Cardinality({i \in 1..Len(Reported) :
                                 IsRotation(Reported[i].members, c)}) = 1
           /\ \A i \in 1..Len(Reported) :
                 \E c \in SimpleCycles(graph) : IsRotation(Reported[i].members, c)

\* a Graph with cycles of three and of four accounts, some of them not
\* through its smallest account, all reported and no limit in the way
C21_Witness ==
    /\ pc = "cycles_done"
    /\ ~CapBinds(graph)
    /\ \E c \in SimpleCycles(graph) : Len(c) = 4
    /\ \E c \in SimpleCycles(graph) :
          Len(c) = 3 /\ c[1] # SortedSeq(graph.node_set)[1]
    /\ Len(Reported) = Cardinality(SimpleCycles(graph))

\* the accounts reached from those of S along the transactions
RECURSIVE ReachedFrom(_, _)
ReachedFrom(g, S) ==
    LET more == S \cup UNION {Receivers(g, a) : a \in S}
    IN  IF more = S THEN S ELSE ReachedFrom(g, more)

\* C22: when _tarjan_scc returns, its sets partition the accounts of the
\* Graph, senders and receive-only accounts alike: every account is in
\* exactly one set, two accounts of one set reach each other along the
\* transactions, and two accounts of different sets do not reach each
\* other both ways.
C22_TarjanPartition ==
    pc = "graph_built" =>
        LET found == _tarjan_scc(graph.adjacency_list, graph.adj_keys)
            sccs == found.result
            reach == [a \in graph.node_set |-> ReachedFrom(graph, {a})]
        IN  ~found.raised =>
               /\ \A a \in graph.node_set :
                     Cardinality({i \in 1..Len(sccs) : a \in sccs[i]}) = 1
               /\ \A i \in 1..Len(sccs) :
                     /\ sccs[i] \subseteq graph.node_set
                     /\ \A a, b \in sccs[i] : b \in reach[a]
               /\ \A i, j \in 1..Len(sccs) :
                     i # j => \A a \in sccs[i], b \in sccs[j] :
                                 ~(b \in reach[a] /\ a \in reach[b])

\* a Graph with a component of three or more accounts, a receive-only
\* account in a set of its own, and an account that reaches a component
\* it is not reached from
C22_Witness ==
    /\ pc = "graph_built"
    /\ LET found == _tarjan_scc(graph.adjacency_list, graph.adj_keys)
           sccs == found.result
       IN  /\ ~found.raised
           /\ \E i \in 1..Len(sccs) : Cardinality(sccs[i]) >= 3
           /\ \E a \in graph.node_set \ DOMAIN graph.adjacency_list :
                 \E i \in 1..Len(sccs) : sccs[i] = {a}
           /\ \E i, j \in 1..Len(sccs) :
                 /\ i # j
                 /\ \E a \in sccs[i], b \in sccs[j] : b \in ReachedFrom(graph, {a})

\* the transactions from the i-th member of a ring to the next one, the
\* last member paying the first
HopTransactions(g, members, i) ==
    Get(g.edge_index, <<members[i], members[(i % Len(members)) + 1]>>, <<>>)

\* the sum over the hops of a ring of what Of(transaction) gives
SumOverHops(g, members, Of(_)) ==
    SumSeq([i \in 1..Len(members) |->
              SumSeq([t \in 1..Len(HopTransactions(g, members, i)) |->
                        Of(HopTransactions(g, members, i)[t])])])

\* C23: every reported ring carries as total_flow the sum and as
\* transaction_count the number of all transactions, parallel ones
\* included, on its consecutive directed member pairs, last-to-first
\* included; and risk_score = min(100, 50 + 20 when the mean amount is
\* positive and sum((a - mean)^2) / (N * mean^2) < 0.1, + 15 when
\* transaction_count > 2 * cycle_length, + 10 when cycle_length >= 4).  With
\* S the sum of the amounts and Q the sum of their squares, the variance
\* ratio is (N * Q - S^2) / S^2.
C23_RingFlowAndRisk ==
    \A i \in 1..Len(Reported) :
        LET ring == Reported[i]
            N == SumOverHops(graph, ring.members, LAMBDA e : 1)
            S == SumOverHops(graph, ring.members, LAMBDA e : e.amount \div AmountUnit)
            Q == SumOverHops(graph, ring.members,
                             LAMBDA e : (e.amount \div AmountUnit)
                                            * (e.amount \div AmountUnit))
            cluster == IF N > 0 /\ S > 0 /\ 10 * (N * Q - S * S) < S * S THEN 20 ELSE 0
            volume == IF N > 2 * ring.cycle_length THEN 15 ELSE 0
            long == IF ring.cycle_length >= 4 THEN 10 ELSE 0
            sum == 50 + cluster + volume + long
        IN  /\ ring.transaction_count = N
            /\ ring.total_flow = S * AmountUnit
            /\ ring.risk_score = IF sum > 100 THEN 100 ELSE sum

\* a ring of four or more accounts with three equal transactions a hop is
\* reported with 50 + 20 + 15 + 10
C23_Witness ==
    \E i \in 1..Len(Reported) :
        /\ Reported[i].cycle_length >= 4
        /\ Reported[i].transaction_count = 3 * Reported[i].cycle_length
        /\ Reported[i].risk_score = 95

\* the rings in the order in which detect_cycles appended them to results,
\* lines 178-210, before the sort of line 213
Discovered(g) ==
    collect_sccs(admitted_sccs(_tarjan_scc(g.adjacency_list, g.adj_keys).result),
                 1, g, default_max_results, [seen |-> {}, results |-> <<>>]).results

\* C24: detect_cycles returns at most max_results = 50 rings, each of them
\* one of the rings it discovered, in descending order of risk_score, two
\* rings of equal risk_score in the order of their discovery.
C24_AtMostFiftySortedStable ==
    (pc = "cycles_done" /\ detected # <<>> /\ ~detected[1].raised) =>
        LET found == Discovered(graph)
            at(ring) == CHOOSE k \in 1..Len(found) : found[k] = ring
        IN  /\ Len(Reported) <= default_max_results
            /\ Len(Reported) = Len(found)
            /\ \A i \in 1..Len(Reported) : \E k \in 1..Len(found) : found[k] = Reported[i]
            /\ \A i, j \in 1..Len(Reported) :
                  i < j => \/ Reported[i].risk_score > Reported[j].risk_score
                           \/ /\ Reported[i].risk_score = Reported[j].risk_score
                              /\ at(Reported[i]) < at(Reported[j])

\* the list is full, max_results rings, and the sort has moved rings of a
\* higher risk_score before rings discovered earlier
C24_Witness ==
    /\ pc = "cycles_done"
    /\ Len(Reported) = default_max_results
    /\ Reported # Discovered(graph)
    /\ \E i \in 1..(Len(Reported) - 1) :
          Reported[i].risk_score = Reported[i + 1].risk_score

\* the paths of k transactions that start at start, repeat no account and
\* do not touch target
RECURSIVE PathsAvoiding(_, _, _, _)
PathsAvoiding(g, start, target, k) ==
    IF start = target THEN {}
    ELSE IF k = 0 THEN {<<start>>}
    ELSE UNION {{Append(p, b) : b \in Receivers(g, p[Len(p)]) \ (Range(p) \cup {target})} :
                    p \in PathsAvoiding(g, start, target, k - 1)}

\* the greatest number of transactions, at most MaxChainDepth, on a path
\* from start to target that repeats no account; 0 when there is none
LongestPath(g, start, target) ==
    LET lengths == {n \in 1..MaxChainDepth :
                      \E p \in PathsAvoiding(g, start, target, n - 1) :
                          target \in Receivers(g, p[Len(p)])}
    IN  IF lengths = {} THEN 0 ELSE CHOOSE m \in lengths : \A l \in lengths : l <= m

\* C25: for every account and the sender of each of its incoming edges,
\* _dfs_chain_length ends and returns the greatest length, at most 10, of a
\* directed path from that sender to the account that repeats no account,
\* 0 when there is none; and the account passes the chain test exactly
\* when that value is at least MIN_CHAIN_LENGTH = 3 for one of its senders.
C25_ChainLength ==
    pc = "shells_done" =>
        \A node \in graph.node_set :
            LET incoming == Get(graph.reverse_adj, node, <<>>)
                longest == [i \in 1..Len(incoming) |->
                              LongestPath(graph, incoming[i].sender_id, node)]
            IN  /\ \A i \in 1..Len(incoming) :
                      /\ _dfs_chain_length(incoming[i].sender_id, node, graph, {}, 0)
                            = longest[i]
                      /\ longest[i] <= MaxChainDepth
                /\ _is_in_chain(node, graph)
                      <=> \E i \in 1..Len(incoming) : longest[i] >= min_chain_length

\* an account is reached from one of its senders over exactly ten
\* transactions and passes the chain test by that sender, which is not the
\* sender of its first incoming edge
C25_Witness ==
    /\ pc = "shells_done"
    /\ \E node \in graph.node_set :
          LET incoming == Get(graph.reverse_adj, node, <<>>)
              length(i) == _dfs_chain_length(incoming[i].sender_id, node, graph, {}, 0)
          IN  /\ _is_in_chain(node, graph)
              /\ Len(incoming) >= 2
              /\ length(1) < min_chain_length
              /\ \E i \in 2..Len(incoming) : length(i) = MaxChainDepth

\* edges[k] stands at or after edges[i] once the list is ordered by
\* timestamp, transactions of one timestamp in the order of the list
AtOrAfter(edges, i, k) ==
    \/ edges[k].timestamp > edges[i].timestamp
    \/ edges[k].timestamp = edges[i].timestamp /\ k >= i

\* some transaction opens a window of 72 hours that holds, of the
\* transactions at or after it, at least 5, at least 80% of them below 10000
HasSmurfingWindow(edges) ==
    \E i \in 1..Len(edges) :
        LET window == {k \in 1..Len(edges) :
                          /\ AtOrAfter(edges, i, k)
                          /\ edges[k].timestamp <= edges[i].timestamp + TIME_WINDOW_HOURS}
            below == {k \in window : edges[k].amount < SMURFING_THRESHOLD}
        IN  /\ Cardinality(window) >= 5
            /\ 5 * Cardinality(below) >= 4 * Cardinality(window)

\* C26: an account is in the smurfing set if and only if its out_degree is
\* at least 5 and its outgoing edges, ordered by timestamp, hold an index i
\* whose window [t_i, t_i + 72h] has at least 5 edges of index >= i, at
\* least 80% of them of amount < 10000, or the same holds of its in_degree
\* and its incoming edges.
C26_SmurfingSet ==
    (request.endpoint = "detect" /\ pc = "smurfing_done") =>
        \A a \in graph.node_set :
            a \in smurfing_accounts
                <=> \/ /\ graph.node_stats[a].out_degree >= 5
                       /\ HasSmurfingWindow(Get(graph.adjacency_list, a, <<>>))
                    \/ /\ graph.node_stats[a].in_degree >= 5
                       /\ HasSmurfingWindow(Get(graph.reverse_adj, a, <<>>))

\* five payments over exactly 72 hours, four of them below the threshold
\* and one at it: the sender is in the smurfing set
C26_Witness ==
    /\ request.endpoint = "detect"
    /\ pc = "smurfing_done"
    /\ rows = Spread(5, 18, 1, TRUE)
    /\ smurfing_accounts = {1}

\* the transactions an account sent and received
AdjacentEdges(g, a) == Get(g.adjacency_list, a, <<>>) \o Get(g.reverse_adj, a, <<>>)

\* C27: on both endpoints a scored account with at least 5 adjacent edges,
\* at least 70% of them (exactly 70% included) of amount below
\* SMURFING_THRESHOLD = 10000, carries the flag
\* below_threshold_structuring and is scored at least its weight of 20.
C27_BelowThresholdFlag ==
    pc = "scoring_done" =>
        \A i \in 1..Len(scored_accounts) :
            LET all_txs == AdjacentEdges(graph, scored_accounts[i].account_id)
                below == {k \in 1..Len(all_txs) : all_txs[k].amount < SMURFING_THRESHOLD}
            IN  (Len(all_txs) >= 5 /\ 10 * Cardinality(below) >= 7 * Len(all_txs))
                    => /\ "below_threshold_structuring" \in Range(scored_accounts[i].flags)
                       /\ scored_accounts[i].suspicion_score >= 20

\* C28: on both endpoints a scored account carries multiple_patterns if and
\* only if it ends with at least 3 other flags, high_risk_pattern counted
\* among them on POST /detect/enhanced.
C28_MultiplePatterns ==
    pc = "scoring_done" =>
        \A i \in 1..Len(scored_accounts) :
            "multiple_patterns" \in Range(scored_accounts[i].flags)
                <=> Cardinality(Range(scored_accounts[i].flags) \ {"multiple_patterns"}) >= 3

(***************************************************************************)
(* C29: in the base pipeline every member of a reported ring that does not *)
(* match the payroll signature is in the filtered accounts, and after the  *)
(* result is built in its suspicious_accounts, with the flag cycle_member  *)
(* and a score of 50 or more.                                              *)
(***************************************************************************)
RingMembersReported ==
    {a \in graph.node_set : \E i \in 1..Len(fraud_rings) :
        \E k \in 1..Len(fraud_rings[i].members) : fraud_rings[i].members[k] = a}

KeptWithCycleFlag(accounts, a, flags_of(_)) ==
    \E i \in 1..Len(accounts) :
        /\ accounts[i].account_id = a
        /\ "cycle_member" \in Range(flags_of(accounts[i]))
        /\ accounts[i].suspicion_score >= 50

C29_RingMembersSurviveTheGuard ==
    request.endpoint = "detect" =>
        \A a \in RingMembersReported :
            ~_is_payroll(a, graph, DetectionConfig, FALSE) =>
                /\ pc = "filtered" =>
                        KeptWithCycleFlag(filtered_accounts, a, LAMBDA e : e.flags)
                /\ pc = "responded" =>
                        KeptWithCycleFlag(response[1].suspicious_accounts, a,
                                          LAMBDA e : e.detected_patterns)

\* a result with two rings whose members are all listed
C29_Witness ==
    /\ request.endpoint = "detect"
    /\ pc = "responded"
    /\ Len(fraud_rings) >= 2
    /\ \A a \in RingMembersReported :
            KeptWithCycleFlag(response[1].suspicious_accounts, a,
                              LAMBDA e : e.detected_patterns)

\* a result whose ring has a member with the payroll signature, left out
C29_WitnessPayroll ==
    /\ request.endpoint = "detect"
    /\ pc = "responded"
    /\ \E a \in RingMembersReported :
            /\ _is_payroll(a, graph, DetectionConfig, FALSE)
            /\ \A i \in 1..Len(response[1].suspicious_accounts) :
                    response[1].suspicious_accounts[i].account_id # a

(***************************************************************************)
(* C30: in POST /detect/enhanced the processing time is there when the     *)
(* result is assembled: a batch that has passed every stage up to the      *)
(* false-positive guard never ends with an internal error raised at        *)
(* build_output.                                                           *)
(***************************************************************************)
C30_EnhancedEndsWithResult ==
    request.endpoint = "enhanced" =>
        ~(pc = "failed" /\ status = 500 /\ failed_stage = "build_output")

====
